---- MODULE Spec2Model ----
(***************************************************************************)
(* A model of the analytical core of post_award_agent.py: the company-name *)
(* normalizer, the award record store, the competitor and PE profile       *)
(* builders, the pattern miner and the Tender Prediction Score (TPS).      *)
(*                                                                         *)
(* Text is a sequence of characters, a character a one-element atom        *)
(* (a TLA+ string).  SQL NULL / Python None of a text column is the        *)
(* one-element sequence NULL, of a numeric column the number NONE.         *)
(* Floats are fixed point: price ratios in 1/10000 (the code rounds them   *)
(* to 4 places), threat and confidence scores in 1/1000 (rounded to 3      *)
(* places), TPS factor scores in 1/1000000.                                *)
(***************************************************************************)
EXTENDS Integers, Sequences, FiniteSets, TLC

VARIABLES
    award_records,        \* table award_records: the rows, in rowid order
    competitor_profiles,  \* table competitor_profiles: company_name -> row
    pe_profiles,          \* table pe_profiles: pe_name -> row
    pattern_insights,     \* table pattern_insights: the rows, in rowid order
    op,                   \* the last operation: its name, outcome and result
    norm                  \* the normalizer under test: input and results

vars == <<award_records, competitor_profiles, pe_profiles, pattern_insights, op, norm>>

(***************************************************************************)
(* Bounds of the model.                                                    *)
(***************************************************************************)
MaxRecords == 3      \* rows the store holds at most
MaxNameLen == 4      \* length of the names the normalizer is tried on
TpsMargin  == 1      \* how far around MIN_DATA_FOR_TPS the scored stores' sizes go

(***************************************************************************)
(* Generic helpers.                                                        *)
(***************************************************************************)
NULL == <<"<NULL>">>
NONE == -1

Range(s) == {s[i] : i \in 1..Len(s)}

RECURSIVE SumSeq(_)
SumSeq(s) == IF s = <<>> THEN 0 ELSE Head(s) + SumSeq(Tail(s))

SetMax(S) == CHOOSE x \in S : \A y \in S : y <= x
SetMin(S) == CHOOSE x \in S : \A y \in S : x <= y

Abs(x) == IF x < 0 THEN -x ELSE x
Min2(a, b) == IF a <= b THEN a ELSE b
Max2(a, b) == IF a >= b THEN a ELSE b

\* round(n / d) for n >= 0, d > 0 (halves go up)
RoundDiv(n, d) == (2 * n + d) \div (2 * d)

\* the first k decimal places of r / d, for 0 <= r < d, by long division
RECURSIVE Millionths(_, _, _)
Millionths(r, d, k) ==
    IF k = 0 THEN 0
    ELSE ((10 * r) \div d) * 10^(k - 1) + Millionths((10 * r) % d, d, k - 1)


(***************************************************************************)
(* Characters: Python's str.lower(), str.title(), and the regex classes    *)
(* \w and \s.  Besides ASCII the alphabet holds one letter of the kind     *)
(* U+01F0 (j with caron): it is lowercase, has no one-character uppercase, *)
(* and title-cases to "J" followed by the combining mark U+030C, which is  *)
(* neither \w nor \s and is not cased.                                     *)
(***************************************************************************)
LowerLetters == <<"a","b","c","d","e","f","g","h","i","j","k","l","m",
                  "n","o","p","q","r","s","t","u","v","w","x","y","z">>
UpperLetters == <<"A","B","C","D","E","F","G","H","I","J","K","L","M",
                  "N","O","P","Q","R","S","T","U","V","W","X","Y","Z">>
JCARON == "U+01F0"
CARON  == "U+030C"
DIGITS == <<"0","1","2","3","4","5","6","7","8","9">>
Digits == Range(DIGITS)

IndexOf(c, s) == CHOOSE i \in 1..Len(s) : s[i] = c

IsLower(c) == c \in Range(LowerLetters) \/ c = JCARON
IsUpper(c) == c \in Range(UpperLetters)
IsCased(c) == IsLower(c) \/ IsUpper(c)
IsWordChar(c) == IsCased(c) \/ c \in Digits \/ c = "_"
IsSpaceChar(c) == c = " "

\* str.lower() of one character
LowerChar(c) == IF IsUpper(c) THEN LowerLetters[IndexOf(c, UpperLetters)] ELSE c

\* the title-case mapping of one character (a text: U+01F0 expands)
TitleChar(c) ==
    IF c \in Range(LowerLetters) THEN <<UpperLetters[IndexOf(c, LowerLetters)]>>
    ELSE IF c = JCARON THEN <<"J", CARON>>
    ELSE <<c>>

\* str.lower()
RECURSIVE LowerStr(_)
LowerStr(s) == IF s = <<>> THEN <<>> ELSE <<LowerChar(Head(s))>> \o LowerStr(Tail(s))

\* str.title(): a cased character is title-cased after an uncased one (or at
\* the start) and lower-cased after a cased one
RECURSIVE TitleFrom(_, _)
TitleFrom(s, prevCased) ==
    IF s = <<>> THEN <<>>
    ELSE (IF prevCased THEN <<LowerChar(Head(s))>> ELSE TitleChar(Head(s)))
         \o TitleFrom(Tail(s), IsCased(Head(s)))
TitleStr(s) == TitleFrom(s, FALSE)

(***************************************************************************)
(* normalize_company_name.                                                 *)
(***************************************************************************)
\* the alternatives of the first regex, in its order
SUFFIX_WORDS == <<
    <<"l","t","d">>,
    <<"l","i","m","i","t","e","d">>,
    <<"c","o">>,
    <<"c","o","m","p","a","n","y">>,
    <<"c","o","r","p","o","r","a","t","i","o","n">>,
    <<"c","o","r","p">>,
    <<"i","n","c">>,
    <<"l","l","c">>,
    <<"p","l","c">>,
    <<"p","v","t">>,
    <<"p","r","i","v","a","t","e">>,
    <<"t","a","n","z","a","n","i","a">>,
    <<"t","z">>,
    <<"t",".","z",".">> >>

\* whether character k of s exists and is a \w character
WordAt(s, k) == k >= 1 /\ k <= Len(s) /\ IsWordChar(s[k])

\* the regex \b between characters k and k+1 of s
BoundaryAfter(s, k) == WordAt(s, k) # WordAt(s, k + 1)

\* whether \b(w)\b matches s at position i
WordMatchesAt(s, i, w) ==
    /\ i + Len(w) - 1 <= Len(s)
    /\ SubSeq(s, i, i + Len(w) - 1) = w
    /\ BoundaryAfter(s, i - 1)
    /\ BoundaryAfter(s, i + Len(w) - 1)

\* re.sub(r'\b(ltd|...|t\.z\.)\b', '', s): leftmost matches, first alternative
RECURSIVE StripSuffixWordsFrom(_, _)
StripSuffixWordsFrom(s, i) ==
    IF i > Len(s) THEN <<>>
    ELSE LET hits == {j \in 1..Len(SUFFIX_WORDS) : WordMatchesAt(s, i, SUFFIX_WORDS[j])}
         IN  IF hits # {}
             THEN StripSuffixWordsFrom(s, i + Len(SUFFIX_WORDS[SetMin(hits)]))
             ELSE <<s[i]>> \o StripSuffixWordsFrom(s, i + 1)
StripSuffixWords(s) == StripSuffixWordsFrom(s, 1)

\* re.sub(r'[^\w\s]', ' ', s)
RECURSIVE PunctToSpace(_)
PunctToSpace(s) ==
    IF s = <<>> THEN <<>>
    ELSE <<IF IsWordChar(Head(s)) \/ IsSpaceChar(Head(s)) THEN Head(s) ELSE " ">>
         \o PunctToSpace(Tail(s))

\* re.sub(r'\s+', ' ', s)
RECURSIVE CollapseSpaces(_)
CollapseSpaces(s) ==
    IF s = <<>> THEN <<>>
    ELSE IF IsSpaceChar(Head(s)) /\ Len(s) > 1 /\ IsSpaceChar(s[2])
         THEN CollapseSpaces(Tail(s))
         ELSE <<IF IsSpaceChar(Head(s)) THEN " " ELSE Head(s)>> \o CollapseSpaces(Tail(s))

\* str.strip()
RECURSIVE StripLeft(_)
StripLeft(s) == IF s # <<>> /\ IsSpaceChar(Head(s)) THEN StripLeft(Tail(s)) ELSE s
RECURSIVE StripRight(_)
StripRight(s) ==
    IF s # <<>> /\ IsSpaceChar(s[Len(s)]) THEN StripRight(SubSeq(s, 1, Len(s) - 1)) ELSE s
StripStr(s) == StripRight(StripLeft(s))

UNKNOWN == <<"U","n","k","n","o","w","n">>

normalize_company_name(name) ==
    IF name = NULL \/ name = <<>> THEN UNKNOWN
    ELSE LET stripped == StripSuffixWords(LowerStr(name))
             spaced   == PunctToSpace(stripped)
             titled   == TitleStr(StripStr(CollapseSpaces(spaced)))
         IN  IF titled = <<>> THEN UNKNOWN ELSE titled

(***************************************************************************)
(* Text order: Python compares str, and SQLite TEXT (BINARY collation),    *)
(* by code point.                                                          *)
(***************************************************************************)
CharCode(c) ==
    IF c = " " THEN 32
    ELSE IF c = "-" THEN 45
    ELSE IF c = "." THEN 46
    ELSE IF c \in Digits THEN 47 + IndexOf(c, DIGITS)
    ELSE IF IsUpper(c) THEN 64 + IndexOf(c, UpperLetters)
    ELSE IF c = "_" THEN 95
    ELSE IF c \in Range(LowerLetters) THEN 96 + IndexOf(c, LowerLetters)
    ELSE IF c = JCARON THEN 496
    ELSE 780

\* a < b for two texts
RECURSIVE TextLT(_, _)
TextLT(a, b) ==
    IF b = <<>> THEN FALSE
    ELSE IF a = <<>> THEN TRUE
    ELSE IF Head(a) = Head(b) THEN TextLT(Tail(a), Tail(b))
    ELSE CharCode(Head(a)) < CharCode(Head(b))

\* a > b for two texts
TextGT(a, b) == TextLT(b, a)

\* Python's `needle in hay` for two texts
IsSubstring(needle, hay) ==
    \E i \in 1..(Len(hay) + 1) :
        /\ i + Len(needle) - 1 <= Len(hay)
        /\ SubSeq(hay, i, i + Len(needle) - 1) = needle

(***************************************************************************)
(* Award records.  A row holds the columns the analytical core reads.      *)
(***************************************************************************)
ICT     == <<"I","C","T">>
MEDICAL == <<"M","e","d","i","c","a","l">>
SECTORS == {ICT, MEDICAL}

PE_MOF == <<"M","o","F">>
PE_TRA == <<"T","R","A">>

X_LTD == <<"X"," ","L","t","d">>
X_CO  == <<"x"," ","c","o",".">>
Y_INC == <<"Y"," ","I","n","c">>
LTD   == <<"L","t","d">>

DATE_MAR == <<"2","0","2","4","-","0","3","-","1","5">>
DATE_NOV == <<"2","0","2","4","-","1","1","-","0","2">>
DATE_BAD == <<"2","0","2","4","-","x","x","-","0","1">>
DATE_SHORT == <<"2","0","2","4">>

AwardRecord(ocid, pe, winner, sector, price, ratio, date) ==
    [ocid |-> ocid, pe_name |-> pe, winning_company |-> winner, sector |-> sector,
     contract_price |-> price, price_ratio |-> ratio, award_date |-> date]

\* what the ingestion collaborator may deliver under one contract id: the
\* well-formed awards of two companies (one of them under two raw spellings),
\* winners that are or resolve to "Unknown", and rows with a NULL, empty,
\* short or unparseable award date
AwardsFor(ocid) == <<
    AwardRecord(ocid, PE_MOF, X_LTD,   ICT,     100,  9000, DATE_MAR),
    AwardRecord(ocid, PE_MOF, X_CO,    ICT,     300,  9400, DATE_NOV),
    AwardRecord(ocid, PE_TRA, Y_INC,   MEDICAL, NONE, NONE, <<>>),
    AwardRecord(ocid, PE_MOF, Y_INC,   ICT,     200,  8000, DATE_SHORT),
    AwardRecord(ocid, PE_TRA, LTD,     MEDICAL, 100,  9800, DATE_MAR),
    AwardRecord(ocid, PE_MOF, UNKNOWN, ICT,     100,  9000, DATE_NOV),
    AwardRecord(ocid, PE_TRA, NULL,    MEDICAL, 200,  NONE, DATE_MAR),
    AwardRecord(ocid, PE_MOF, Y_INC,   ICT,     100,  9000, NULL),
    AwardRecord(ocid, PE_TRA, Y_INC,   MEDICAL, 100,  9000, DATE_BAD) >>

\* the contract id number i
Ocid(i) == <<"o", DIGITS[(i \div 10) + 1], DIGITS[(i % 10) + 1]>>

\* the store's feed: three contract ids, each delivered as a well-formed
\* award, as an award without price, ratio and date, or with a malformed date
INPUT_RECORDS == {AwardsFor(Ocid(i))[k] : i \in 1..3, k \in {1, 3, 8, 9}}

\* the competitor builder's feed: each kind of award under a contract id of its own
COMPETITOR_INPUT_RECORDS == {AwardsFor(Ocid(k))[k] : k \in 1..9}

\* Python truthiness of a numeric column: None and 0 are false
Truthy(x) == x # NONE /\ x # 0

\* the distinct values of s in first-seen order (the keys of a dict filled in order)
RECURSIVE FirstSeen(_, _)
FirstSeen(s, seen) ==
    IF s = <<>> THEN <<>>
    ELSE IF Head(s) \in seen THEN FirstSeen(Tail(s), seen)
    ELSE <<Head(s)>> \o FirstSeen(Tail(s), seen \cup {Head(s)})

CountOf(s, x) == Cardinality({i \in 1..Len(s) : s[i] = x})

\* a histogram dict: value -> occurrences
Histogram(s) == [x \in Range(s) |-> CountOf(s, x)]

(***************************************************************************)
(* save_award_record: INSERT OR IGNORE on the UNIQUE column ocid.          *)
(***************************************************************************)
HasOcid(table, ocid) == \E i \in 1..Len(table) : table[i].ocid = ocid

\* a faulty variant, INSERT OR REPLACE: the row of a known ocid is deleted and
\* the new one appended
InsertOrReplace(table, rec) ==
    Append(SelectSeq(table, LAMBDA a : a.ocid # rec.ocid), rec)

InsertOrIgnore(table, rec) ==
    IF HasOcid(table, rec.ocid) THEN table ELSE Append(table, rec)

SaveAwardRecord(rec) ==
    /\ Len(award_records) < MaxRecords \/ HasOcid(award_records, rec.ocid)
    /\ award_records' = InsertOrIgnore(award_records, rec)
    /\ op' = [name |-> "save_award_record", status |-> "ok", arg |-> rec,
              ret |-> NONE]
    /\ UNCHANGED <<competitor_profiles, pe_profiles, pattern_insights, norm>>

(***************************************************************************)
(* rebuild_competitor_profiles.                                            *)
(***************************************************************************)
\* SELECT ... WHERE winning_company IS NOT NULL AND winning_company != 'Unknown'
CompetitorAwards(table) ==
    SelectSeq(table, LAMBDA a : a.winning_company # NULL /\ a.winning_company # UNKNOWN)

\* normalize_company_name over the raw names the feeds deliver, computed once
FEED_NAMES == {NULL, UNKNOWN, X_LTD, X_CO, Y_INC, LTD}
NORMALIZED == [name \in FEED_NAMES |-> normalize_company_name(name)]

\* normalize_company_name(name), looked up where it is tabulated
Normalized(name) ==
    IF name \in FEED_NAMES THEN NORMALIZED[name] ELSE normalize_company_name(name)

\* the key a record is grouped under
CompetitorKey(a) == Normalized(a.winning_company)

\* `a["award_date"] > p["last_win_date"]` on a NULL date: None > str raises
\* TypeError, inside the aggregation loop, before anything is written
CompetitorRebuildRaises(awards) ==
    \E i \in 1..Len(awards) : awards[i].award_date = NULL

\* the running maximum of the award dates, from ""
RECURSIVE LastWinDate(_, _)
LastWinDate(mine, cur) ==
    IF mine = <<>> THEN cur
    ELSE IF TextGT(Head(mine).award_date, cur)
         THEN LastWinDate(Tail(mine), Head(mine).award_date)
         ELSE LastWinDate(Tail(mine), cur)

\* profiles[name] after the aggregation loop
CompetitorAggregate(awards, name) ==
    LET mine == SelectSeq(awards, LAMBDA a : CompetitorKey(a) = name)
    IN  [company_name     |-> name,
         total_wins       |-> Len(mine),
         primary_sectors  |-> Histogram([i \in 1..Len(mine) |-> mine[i].sector]),
         pe_relationships |-> Histogram([i \in 1..Len(mine) |-> mine[i].pe_name]),
         prices           |-> SelectSeq([i \in 1..Len(mine) |-> mine[i].contract_price], Truthy),
         ratios           |-> SelectSeq([i \in 1..Len(mine) |-> mine[i].price_ratio], Truthy),
         last_win_date    |-> LastWinDate(mine, <<>>)]

\* the dict `profiles` the aggregation loop builds
CompetitorProfilesOf(awards) ==
    [name \in {CompetitorKey(awards[i]) : i \in 1..Len(awards)} |->
        CompetitorAggregate(awards, name)]

\* max((p["total_wins"] for p in profiles.values()), default=1)
TotalWinsMax(profiles) ==
    IF DOMAIN profiles = {} THEN 1
    ELSE SetMax({profiles[n].total_wins : n \in DOMAIN profiles})

\* a faulty variant: the divisor guarded against zero by adding one
ThreatScoreGuarded(total_wins, total_wins_max) ==
    Min2(1000, RoundDiv(1000 * total_wins, total_wins_max + 1))

\* round(min(1.0, total_wins / total_wins_max), 3), in 1/1000
ThreatScore(total_wins, total_wins_max) ==
    Min2(1000, RoundDiv(1000 * total_wins, total_wins_max))

\* the columns the upsert writes for one profile
CompetitorRow(p, total_wins_max) ==
    [total_wins       |-> p.total_wins,
     primary_sectors  |-> p.primary_sectors,
     pe_relationships |-> p.pe_relationships,
     price_range_min  |-> IF p.prices = <<>> THEN NONE ELSE SetMin(Range(p.prices)),
     price_range_max  |-> IF p.prices = <<>> THEN NONE ELSE SetMax(Range(p.prices)),
     avg_price_ratio  |-> IF p.ratios = <<>> THEN NONE
                          ELSE RoundDiv(SumSeq(p.ratios), Len(p.ratios)),
     threat_score     |-> ThreatScore(p.total_wins, total_wins_max),
     last_win_date    |-> p.last_win_date]

\* a faulty variant: INSERT OR IGNORE, a row already stored keeps its columns
InsertMissing(table, rows) ==
    [k \in DOMAIN table \cup DOMAIN rows |-> IF k \in DOMAIN table THEN table[k] ELSE rows[k]]

\* a faulty variant: the table emptied before the new rows are written
ReplaceAll(table, rows) == rows

\* INSERT ... ON CONFLICT(key) DO UPDATE SET <every written column>, per new row
Upsert(table, rows) ==
    [k \in DOMAIN table \cup DOMAIN rows |-> IF k \in DOMAIN rows THEN rows[k] ELSE table[k]]

RebuildCompetitorProfiles ==
    LET awards   == CompetitorAwards(award_records)
        profiles == CompetitorProfilesOf(awards)
        top      == TotalWinsMax(profiles)
    IN  /\ IF CompetitorRebuildRaises(awards)
           THEN /\ op' = [name |-> "rebuild_competitor_profiles", status |-> "raised",
                          arg |-> NONE, ret |-> NONE]
                /\ UNCHANGED competitor_profiles
           ELSE /\ competitor_profiles' =
                       Upsert(competitor_profiles,
                              [n \in DOMAIN profiles |-> CompetitorRow(profiles[n], top)])
                /\ op' = [name |-> "rebuild_competitor_profiles", status |-> "ok",
                          arg |-> NONE, ret |-> profiles]
        /\ UNCHANGED <<award_records, pe_profiles, pattern_insights, norm>>

(***************************************************************************)
(* rebuild_pe_profiles.                                                    *)
(***************************************************************************)
\* SELECT ... WHERE pe_name IS NOT NULL
PeAwards(table) == SelectSeq(table, LAMBDA a : a.pe_name # NULL)

\* `a["award_date"] and len(a["award_date"]) >= 7`
HasMonth(a) == a.award_date # NULL /\ a.award_date # <<>> /\ Len(a.award_date) >= 7

DigitValue(c) == CharCode(c) - 48

\* whether int(date[5:7]) succeeds (two decimal digits; the signed and the
\* space-padded forms int() also takes are not dates the model delivers)
MonthParses(date) == date[6] \in Digits /\ date[7] \in Digits

\* int(date[5:7])
MonthOf(date) == 10 * DigitValue(date[6]) + DigitValue(date[7])

\* int() on an unparseable month raises ValueError, inside the aggregation
\* loop, before anything is written
PeRebuildRaises(awards) ==
    \E i \in 1..Len(awards) : HasMonth(awards[i]) /\ ~MonthParses(awards[i].award_date)

\* s without its element at index i
RemoveAt(s, i) == SubSeq(s, 1, i - 1) \o SubSeq(s, i + 1, Len(s))

\* a faulty variant: among equal counts the key seen last comes first
RECURSIVE SortedByCountDescUnstable(_, _)
SortedByCountDescUnstable(keys, cnt) ==
    IF keys = <<>> THEN <<>>
    ELSE LET top == SetMax({cnt[keys[i]] : i \in 1..Len(keys)})
             i   == SetMax({j \in 1..Len(keys) : cnt[keys[j]] = top})
         IN  <<keys[i]>> \o SortedByCountDescUnstable(RemoveAt(keys, i), cnt)

\* sorted(keys, key=lambda k: -cnt[k]): stable, so equal counts keep their order
RECURSIVE SortedByCountDesc(_, _)
SortedByCountDesc(keys, cnt) ==
    IF keys = <<>> THEN <<>>
    ELSE LET top == SetMax({cnt[keys[i]] : i \in 1..Len(keys)})
             i   == SetMin({j \in 1..Len(keys) : cnt[keys[j]] = top})
         IN  <<keys[i]>> \o SortedByCountDesc(RemoveAt(keys, i), cnt)

\* s[:k]
Take(s, k) == SubSeq(s, 1, Min2(k, Len(s)))

DEFAULT_AVG_RATIO == 9300   \* 0.93
HIGH_BELOW == 8800          \* avg_r < 0.88
LOW_ABOVE  == 9600          \* avg_r > 0.96
TOP_WINNERS == 5
PEAK_MONTHS == 3
PE_CONFIDENCE_AWARDS == 20

\* a faulty variant: the thresholds themselves counted as HIGH and LOW
PriceSensitivityInclusive(avg_r) ==
    IF avg_r <= HIGH_BELOW THEN "HIGH"
    ELSE IF avg_r >= LOW_ABOVE THEN "LOW"
    ELSE "MEDIUM"

PriceSensitivity(avg_r) ==
    IF avg_r < HIGH_BELOW THEN "HIGH"
    ELSE IF avg_r > LOW_ABOVE THEN "LOW"
    ELSE "MEDIUM"

\* pe_data[pe] after the aggregation loop
PeAggregate(awards, pe) ==
    LET mine    == SelectSeq(awards, LAMBDA a : a.pe_name = pe)
        dated   == SelectSeq(mine, HasMonth)
        winners == [i \in 1..Len(mine) |-> mine[i].winning_company]
    IN  [awards  |-> Len(mine),
         sectors |-> Histogram([i \in 1..Len(mine) |-> mine[i].sector]),
         prices  |-> SelectSeq([i \in 1..Len(mine) |-> mine[i].contract_price], Truthy),
         ratios  |-> SelectSeq([i \in 1..Len(mine) |-> mine[i].price_ratio], Truthy),
         winner_order |-> FirstSeen(winners, {}),
         winners |-> Histogram(winners),
         months  |-> [i \in 1..Len(dated) |-> MonthOf(dated[i].award_date)]]

\* the dict `pe_data` the aggregation loop builds
PeDataOf(awards) ==
    [pe \in {awards[i].pe_name : i \in 1..Len(awards)} |-> PeAggregate(awards, pe)]

\* the columns the upsert writes for one buyer
PeRow(d) ==
    LET avg_r == IF d.ratios = <<>> THEN DEFAULT_AVG_RATIO
                 ELSE RoundDiv(SumSeq(d.ratios), Len(d.ratios))
    IN  [total_awards        |-> d.awards,
         avg_contract_value  |-> IF d.prices = <<>> THEN NONE
                                 ELSE RoundDiv(SumSeq(d.prices), Len(d.prices)),
         preferred_sectors   |-> d.sectors,
         avg_price_ratio     |-> avg_r,
         price_sensitivity   |-> PriceSensitivity(avg_r),
         top_winners         |-> Take(SortedByCountDesc(d.winner_order, d.winners), TOP_WINNERS),
         budget_cycle_months |-> Take(SortedByCountDesc(FirstSeen(d.months, {}),
                                                        Histogram(d.months)), PEAK_MONTHS),
         confidence_score    |-> Min2(1000, RoundDiv(1000 * d.awards, PE_CONFIDENCE_AWARDS))]

RebuildPeProfiles ==
    LET awards  == PeAwards(award_records)
        pe_data == PeDataOf(awards)
    IN  /\ IF PeRebuildRaises(awards)
           THEN /\ op' = [name |-> "rebuild_pe_profiles", status |-> "raised",
                          arg |-> NONE, ret |-> NONE]
                /\ UNCHANGED pe_profiles
           ELSE /\ pe_profiles' =
                       Upsert(pe_profiles, [pe \in DOMAIN pe_data |-> PeRow(pe_data[pe])])
                /\ op' = [name |-> "rebuild_pe_profiles", status |-> "ok",
                          arg |-> NONE, ret |-> pe_data]
        /\ UNCHANGED <<award_records, competitor_profiles, pattern_insights, norm>>

(***************************************************************************)
(* run_pattern_mining.  An insight row holds the columns the pass writes;  *)
(* its text is the tuple of the values formatted into the sentence.        *)
(* Where ORDER BY leaves rows of equal count unordered, SQLite's plan for  *)
(* these GROUP BY queries yields them in descending order of the group     *)
(* key, NULL last.                                                         *)
(***************************************************************************)
\* a < b for two group keys: NULL sorts before every text
KeyLT(a, b) == a # b /\ (a = NULL \/ (b # NULL /\ TextLT(a, b)))

\* the keys of S by count descending, equal counts by key descending
RECURSIVE RankedByCount(_, _)
RankedByCount(S, cnt) ==
    IF S = {} THEN <<>>
    ELSE LET first == CHOOSE k \in S : \A j \in S \ {k} :
                          cnt[k] > cnt[j] \/ (cnt[k] = cnt[j] /\ KeyLT(j, k))
         IN  <<first>> \o RankedByCount(S \ {first}, cnt)

\* the keys of S ascending
RECURSIVE RankedAscending(_)
RankedAscending(S) ==
    IF S = {} THEN <<>>
    ELSE LET first == CHOOSE k \in S : \A j \in S \ {k} : KeyLT(k, j)
         IN  <<first>> \o RankedAscending(S \ {first})

RATIO_LOW  == 5000     \* price_ratio BETWEEN 0.5
RATIO_HIGH == 11000    \*                     AND 1.1
MIN_GROUP  == 3        \* HAVING cnt >= 3
PRICE_CONFIDENCE_POINTS  == 20
PE_ACTIVITY_LIMIT        == 10
PE_CONFIDENCE_POINTS     == 15
LEADER_CONFIDENCE_POINTS == 10
SEASONAL_LIMIT           == 3
SEASONAL_CONFIDENCE      == 750   \* 0.75

\* min(1.0, cnt / points), in 1/1000
InsightConfidence(cnt, points) == Min2(1000, RoundDiv(1000 * cnt, points))

\* Pattern 1: price-to-win by sector
PriceToWinInsights(table) ==
    LET rated == SelectSeq(table, LAMBDA a : /\ a.price_ratio # NONE
                                             /\ a.price_ratio >= RATIO_LOW
                                             /\ a.price_ratio <= RATIO_HIGH)
        ratiosOf(sec) == LET mine == SelectSeq(rated, LAMBDA a : a.sector = sec)
                         IN  [i \in 1..Len(mine) |-> mine[i].price_ratio]
        cnt    == [sec \in {rated[i].sector : i \in 1..Len(rated)} |-> Len(ratiosOf(sec))]
        ranked == RankedByCount({sec \in DOMAIN cnt : cnt[sec] >= MIN_GROUP}, cnt)
    IN  [i \in 1..Len(ranked) |->
            LET r == ratiosOf(ranked[i])
            IN  [insight_type |-> "PRICE_TO_WIN",
                 sector       |-> ranked[i],
                 pe_name      |-> <<>>,
                 text         |-> <<RoundDiv(SumSeq(r), 10 * Len(r)),
                                    RoundDiv(SetMin(Range(r)), 100),
                                    RoundDiv(SetMax(Range(r)), 100)>>,
                 data_points  |-> Len(r),
                 confidence   |-> InsightConfidence(Len(r), PRICE_CONFIDENCE_POINTS)]]

\* Pattern 2: most active buyers
PeActivityInsights(table) ==
    LET pricesOf(pe) == LET mine == SelectSeq(table, LAMBDA a : a.pe_name = pe)
                        IN  SelectSeq([i \in 1..Len(mine) |-> mine[i].contract_price],
                                      LAMBDA x : x # NONE)
        cnt    == [pe \in {table[i].pe_name : i \in 1..Len(table)} |->
                      Len(SelectSeq(table, LAMBDA a : a.pe_name = pe))]
        ranked == Take(RankedByCount({pe \in DOMAIN cnt : cnt[pe] >= MIN_GROUP}, cnt),
                       PE_ACTIVITY_LIMIT)
    IN  [i \in 1..Len(ranked) |->
            LET prices  == pricesOf(ranked[i])
                avg_val == IF prices = <<>> THEN NONE
                           ELSE RoundDiv(SumSeq(prices), Len(prices))
            IN  [insight_type |-> "PE_ACTIVITY",
                 sector       |-> <<>>,
                 pe_name      |-> ranked[i],
                 text         |-> IF Truthy(avg_val)
                                  THEN <<ranked[i], cnt[ranked[i]], avg_val>>
                                  ELSE <<ranked[i], cnt[ranked[i]]>>,
                 data_points  |-> cnt[ranked[i]],
                 confidence   |-> InsightConfidence(cnt[ranked[i]], PE_CONFIDENCE_POINTS)]]

\* a faulty variant: the WHERE clause that leaves out 'Unknown' dropped
SectorLeaderInsightsOverAll(table) ==
    LET named == SelectSeq(table, LAMBDA a : a.winning_company # NULL)
        sectors == RankedAscending({named[i].sector : i \in 1..Len(named)})
        winsIn(sec) == LET mine == SelectSeq(named, LAMBDA a : a.sector = sec)
                       IN  Histogram([i \in 1..Len(mine) |-> mine[i].winning_company])
    IN  [i \in 1..Len(sectors) |->
            LET wins == winsIn(sectors[i])
                top  == RankedByCount(DOMAIN wins, wins)[1]
            IN  [insight_type |-> "SECTOR_LEADER",
                 sector       |-> sectors[i],
                 pe_name      |-> <<>>,
                 text         |-> <<sectors[i], top, wins[top]>>,
                 data_points  |-> wins[top],
                 confidence   |-> InsightConfidence(wins[top], LEADER_CONFIDENCE_POINTS)]]

\* Pattern 3: the leading winner of each sector
SectorLeaderInsights(table) ==
    LET named == SelectSeq(table, LAMBDA a : a.winning_company # NULL
                                             /\ a.winning_company # UNKNOWN)
        sectors == RankedAscending({named[i].sector : i \in 1..Len(named)})
        winsIn(sec) == LET mine == SelectSeq(named, LAMBDA a : a.sector = sec)
                       IN  Histogram([i \in 1..Len(mine) |-> mine[i].winning_company])
    IN  [i \in 1..Len(sectors) |->
            LET wins == winsIn(sectors[i])
                top  == RankedByCount(DOMAIN wins, wins)[1]
            IN  [insight_type |-> "SECTOR_LEADER",
                 sector       |-> sectors[i],
                 pe_name      |-> <<>>,
                 text         |-> <<sectors[i], top, wins[top]>>,
                 data_points  |-> wins[top],
                 confidence   |-> InsightConfidence(wins[top], LEADER_CONFIDENCE_POINTS)]]

\* SUBSTR(award_date, 6, 2)
MonthText(date) == SubSeq(date, 6, Min2(7, Len(date)))

\* Pattern 4: the months with most awards, as one insight
SeasonalInsights(table) ==
    LET dated  == SelectSeq(table, LAMBDA a : a.award_date # NULL /\ a.award_date # <<>>)
        months == [i \in 1..Len(dated) |-> MonthText(dated[i].award_date)]
        cnt    == Histogram(months)
        rows   == Take(RankedByCount(DOMAIN cnt, cnt), SEASONAL_LIMIT)
    IN  IF rows = <<>> THEN <<>>
        ELSE << [insight_type |-> "SEASONAL",
                 sector       |-> <<>>,
                 pe_name      |-> <<>>,
                 text         |-> rows,
                 data_points  |-> SumSeq([i \in 1..Len(rows) |-> cnt[rows[i]]]),
                 confidence   |-> SEASONAL_CONFIDENCE] >>

\* the list `insights` the four passes build
MinedInsights(table) ==
    PriceToWinInsights(table) \o PeActivityInsights(table)
        \o SectorLeaderInsights(table) \o SeasonalInsights(table)

\* a faulty variant: the inserts without the DELETE before them
RunPatternMiningAppending ==
    /\ pattern_insights' = pattern_insights \o MinedInsights(award_records)
    /\ op' = [name |-> "run_pattern_mining", status |-> "ok", arg |-> NONE,
              ret |-> MinedInsights(award_records)]
    /\ UNCHANGED <<award_records, competitor_profiles, pe_profiles, norm>>

\* a faulty variant: the DELETE that precedes the inserts names award_records
RunPatternMiningOnWrongTable ==
    /\ award_records' = <<>>
    /\ pattern_insights' = pattern_insights \o MinedInsights(award_records)
    /\ op' = [name |-> "run_pattern_mining", status |-> "ok", arg |-> NONE,
              ret |-> MinedInsights(award_records)]
    /\ UNCHANGED <<competitor_profiles, pe_profiles, norm>>

\* DELETE FROM pattern_insights, then one INSERT per insight, then commit
RunPatternMining ==
    /\ pattern_insights' = MinedInsights(award_records)
    /\ op' = [name |-> "run_pattern_mining", status |-> "ok", arg |-> NONE,
              ret |-> MinedInsights(award_records)]
    /\ UNCHANGED <<award_records, competitor_profiles, pe_profiles, norm>>

(***************************************************************************)
(* calculate_tps.  Factor scores are in 1/1000000, weights in percent.     *)
(***************************************************************************)
MIN_DATA_FOR_TPS == 50

FACTORS == {"capability_match", "historical_win_rate", "pe_favorability",
            "price_competitiveness", "competitor_density", "compliance_readiness",
            "seasonal_timing"}

\* a faulty variant: one weight raised without re-deriving the sum
TpsWeightsRaised ==
    [capability_match      |-> 30,
     historical_win_rate   |-> 20,
     pe_favorability       |-> 15,
     price_competitiveness |-> 15,
     competitor_density    |-> 10,
     compliance_readiness  |-> 10,
     seasonal_timing       |-> 5]

TPS_WEIGHTS ==
    [capability_match      |-> 25,
     historical_win_rate   |-> 20,
     pe_favorability       |-> 15,
     price_competitiveness |-> 15,
     competitor_density    |-> 10,
     compliance_readiness  |-> 10,
     seasonal_timing       |-> 5]

ONE == 1000000          \* the factor score 1.0

\* 1. capability match
CapabilityMatch(sector, company_sectors) ==
    IF sector \in Range(company_sectors) THEN 850000
    ELSE IF \E i \in 1..Len(company_sectors) : IsSubstring(company_sectors[i], sector)
         THEN 600000
    ELSE 300000

\* 2. historical win rate, from the number of awards of the sector
HistoricalWinRate(table, sector) ==
    LET total == Len(SelectSeq(table, LAMBDA a : a.sector = sector))
    IN  IF total > 5 THEN Min2(850000, 400000 + total * 10000) ELSE 450000

\* a faulty variant: the company's name looked up among the raw winner names
PeFavorabilityRawNames(profiles, pe_name, company_name) ==
    IF pe_name \in DOMAIN profiles
    THEN LET row     == profiles[pe_name]
             winners == {row.top_winners[i] : i \in 1..Len(row.top_winners)}
             nominal == IF company_name \in winners THEN 900000 ELSE 450000
         IN  (nominal * (1000 + row.confidence_score)) \div 2000
    ELSE 500000

\* 3. PE favorability: 0.90 or 0.45 times (0.5 + confidence * 0.5), or 0.50
PeFavorability(profiles, pe_name, company_name) ==
    IF pe_name \in DOMAIN profiles
    THEN LET row     == profiles[pe_name]
             winners == {Normalized(row.top_winners[i]) : i \in 1..Len(row.top_winners)}
             nominal == IF Normalized(company_name) \in winners
                        THEN 900000 ELSE 450000
         IN  (nominal * (1000 + row.confidence_score)) \div 2000
    ELSE 500000

\* a faulty variant: a zero span replaced by 1.0 instead of 0.1
PriceCompetitivenessUnitSpan(table, sector, our_typical_ratio) ==
    LET mine   == SelectSeq(table, LAMBDA a : a.sector = sector /\ a.price_ratio # NONE)
        ratios == [i \in 1..Len(mine) |-> mine[i].price_ratio]
    IN  IF ratios # <<>> /\ SumSeq(ratios) # 0
        THEN LET n     == Len(ratios)
                 width == SetMax(Range(ratios)) - SetMin(Range(ratios))
                 span  == IF width = 0 THEN 10000 ELSE width
                 diffN == Abs(our_typical_ratio * n - SumSeq(ratios))
             IN  IF diffN >= n * span THEN 200000
                 ELSE Max2(200000, ONE - Millionths(diffN, n * span, 6))
        ELSE 600000

\* 4. price competitiveness: max(0.2, 1 - |ours - avg| / span), or 0.60;
\* avg = sum / n is kept exact, the quotient is cut to 1/1000000
PriceCompetitiveness(table, sector, our_typical_ratio) ==
    LET mine   == SelectSeq(table, LAMBDA a : a.sector = sector /\ a.price_ratio # NONE)
        ratios == [i \in 1..Len(mine) |-> mine[i].price_ratio]
    IN  IF ratios # <<>> /\ SumSeq(ratios) # 0
        THEN LET n     == Len(ratios)
                 width == SetMax(Range(ratios)) - SetMin(Range(ratios))
                 span  == IF width = 0 THEN 1000 ELSE width
                 diffN == Abs(our_typical_ratio * n - SumSeq(ratios))
             IN  IF diffN >= n * span THEN 200000
                 ELSE Max2(200000, ONE - Millionths(diffN, n * span, 6))
        ELSE 600000

\* 5. competitor density, from COUNT(DISTINCT winning_company) of the sector
CompetitorDensity(table, sector) ==
    LET mine  == SelectSeq(table, LAMBDA a : a.sector = sector /\ a.winning_company # NULL)
        count == Cardinality({mine[i].winning_company : i \in 1..Len(mine)})
    IN  IF count <= 3 THEN 850000
        ELSE IF count <= 8 THEN 650000
        ELSE IF count <= 15 THEN 450000
        ELSE 300000

\* 6. compliance readiness: the caller's compliance_score, as given
ComplianceReadiness(company) == company.compliance_score

\* 7. seasonal timing
SeasonalTiming(profiles, pe_name, current_month) ==
    IF pe_name \in DOMAIN profiles
    THEN IF current_month \in Range(profiles[pe_name].budget_cycle_months)
         THEN 850000 ELSE 500000
    ELSE 600000

\* the dict `scores`
FactorScores(table, profiles, tender, company, current_month) ==
    [capability_match      |-> CapabilityMatch(tender.sector, company.sectors),
     historical_win_rate   |-> HistoricalWinRate(table, tender.sector),
     pe_favorability       |-> PeFavorability(profiles, tender.procuring_entity, company.name),
     price_competitiveness |-> PriceCompetitiveness(table, tender.sector,
                                                    company.typical_price_ratio),
     competitor_density    |-> CompetitorDensity(table, tender.sector),
     compliance_readiness  |-> ComplianceReadiness(company),
     seasonal_timing       |-> SeasonalTiming(profiles, tender.procuring_entity, current_month)]

RECURSIVE WeightedSum(_, _)
WeightedSum(scores, factors) ==
    IF factors = {} THEN 0
    ELSE LET f == CHOOSE g \in factors : TRUE
         IN  scores[f] * TPS_WEIGHTS[f] + WeightedSum(scores, factors \ {f})

\* round(n / d) of a binary float: the nearest integer; where n / d lies
\* exactly between two integers the float may fall on either side of the half
\* (round(0.7 * 0.05 * 100) is 3, round(0.5 * 0.05 * 100) is 2), so either
Rounded(n, d) ==
    IF (2 * n) % d = 0 /\ n % d # 0 THEN {n \div d, n \div d + 1}
    ELSE {RoundDiv(n, d)}

\* tps = round(tps_raw * 100)
TpsValues(scores) == Rounded(WeightedSum(scores, FACTORS), ONE)

HIGH_FROM   == 75
MEDIUM_FROM == 55
LOW_FROM    == 35

\* a faulty variant: the band edges compared with > instead of >=
TpsLabelExclusive(tps) ==
    IF tps > HIGH_FROM THEN "HIGH"
    ELSE IF tps > MEDIUM_FROM THEN "MEDIUM"
    ELSE IF tps > LOW_FROM THEN "LOW"
    ELSE "VERY LOW"

TpsLabel(tps) ==
    IF tps >= HIGH_FROM THEN "HIGH"
    ELSE IF tps >= MEDIUM_FROM THEN "MEDIUM"
    ELSE IF tps >= LOW_FROM THEN "LOW"
    ELSE "VERY LOW"

TpsAction(tps) ==
    IF tps >= HIGH_FROM THEN "Strongly recommended"
    ELSE IF tps >= MEDIUM_FROM THEN "Worth bidding"
    ELSE IF tps >= LOW_FROM THEN "Proceed with caution"
    ELSE "Not recommended"

\* whether the data-sufficiency gate refuses to score
TpsGated(total_awards) == total_awards < MIN_DATA_FOR_TPS

\* the dict calculate_tps returns for one rounding of the score; the rounded
\* display copies of the factor scores are left out of factor_scores
ScoredResult(table, scores, tps) ==
    [tps           |-> tps,
     label         |-> TpsLabel(tps),
     action        |-> TpsAction(tps),
     data_points   |-> Len(table),
     scores        |-> scores,
     factor_scores |-> [f \in FACTORS |-> [weight |-> TPS_WEIGHTS[f]]]]

\* the dicts calculate_tps may return; a gated result has tps None and no label
TpsResults(table, profiles, tender, company, current_month) ==
    IF TpsGated(Len(table))
    THEN {[tps         |-> NONE,
           message     |-> <<MIN_DATA_FOR_TPS, Len(table)>>,
           data_points |-> Len(table)]}
    ELSE LET scores == FactorScores(table, profiles, tender, company, current_month)
         IN  {ScoredResult(table, scores, tps) : tps \in TpsValues(scores)}

\* the tenders, company profiles and calendar months a caller may pass
TENDERS ==
    [sector : SECTORS, procuring_entity : {PE_MOF, PE_TRA}]

COMPLIANCE_SCORES == {0, 700000, ONE, 85 * ONE}

CompanyProfile(name, sectors, compliance_score, typical_price_ratio) ==
    [name                |-> name,
     sectors             |-> sectors,
     compliance_score    |-> compliance_score,
     typical_price_ratio |-> typical_price_ratio]

COMPANIES ==
    UNION {{CompanyProfile(<<"x">>, <<ICT>>, c, 9200),
            CompanyProfile(<<"Q"," ","L","L","C">>, << <<"I","C">> >>, c, 5000),
            CompanyProfile(<<"x">>, <<>>, c, 5000),
            CompanyProfile(<<"y"," ","L","t","d">>, <<MEDICAL>>, c, 9000)} : c \in COMPLIANCE_SCORES}

MONTHS == {3, 6}

\* the tender and the company profile of the command line's --tps
CLI_TENDER == [sector |-> ICT, procuring_entity |-> PE_MOF]

CLI_COMPANY ==
    [name                |-> <<"M","y"," ","C","o","m","p","a","n","y">>,
     sectors             |-> <<ICT>>,
     compliance_score    |-> 850000,
     typical_price_ratio |-> 9200]

\* a faulty variant: every result is also stored as a row of pattern_insights
CalculateTpsRecording(tender, company, current_month) ==
    /\ \E result \in TpsResults(award_records, pe_profiles, tender, company, current_month) :
           /\ op' = [name |-> "calculate_tps", status |-> "ok",
                     arg |-> [tender |-> tender, company |-> company, month |-> current_month],
                     ret |-> result]
           /\ pattern_insights' = Append(pattern_insights, result)
    /\ UNCHANGED <<award_records, competitor_profiles, pe_profiles, norm>>

\* the connection is used for SELECTs only and closed without a commit
CalculateTps(tender, company, current_month) ==
    /\ \E result \in TpsResults(award_records, pe_profiles, tender, company, current_month) :
           op' = [name |-> "calculate_tps", status |-> "ok",
                  arg |-> [tender |-> tender, company |-> company, month |-> current_month],
                  ret |-> result]
    /\ UNCHANGED <<award_records, competitor_profiles, pe_profiles, pattern_insights, norm>>

(***************************************************************************)
(* The store and its operations: the tables after init_db, then any        *)
(* sequence of ingestions, rebuilds, mining passes and TPS calls.          *)
(***************************************************************************)
NormIdle == [input |-> <<>>, results |-> <<>>]

Init ==
    /\ award_records = <<>>
    /\ competitor_profiles = <<>>
    /\ pe_profiles = <<>>
    /\ pattern_insights = <<>>
    /\ op = [name |-> "init_db", status |-> "ok", arg |-> NONE, ret |-> NONE]
    /\ norm = NormIdle

Next ==
    \/ \E rec \in INPUT_RECORDS : SaveAwardRecord(rec)
    \/ RebuildCompetitorProfiles
    \/ RebuildPeProfiles
    \/ RunPatternMining
    \/ \E month \in MONTHS : CalculateTps(CLI_TENDER, CLI_COMPANY, month)

Spec == Init /\ [][Next]_vars

(***************************************************************************)
(* The competitor builder on every kind of award.                          *)
(***************************************************************************)
NextCompetitor ==
    \/ \E rec \in COMPETITOR_INPUT_RECORDS : SaveAwardRecord(rec)
    \/ RebuildCompetitorProfiles

SpecCompetitor == Init /\ [][NextCompetitor]_vars

(***************************************************************************)
(* The normalizer on its own: every name of up to MaxNameLen characters    *)
(* over NORM_ALPHABET, and None, normalized and normalized again.          *)
(***************************************************************************)
NORM_ALPHABET == {"c", "o", "C", "t", "z", ".", " ", "_", JCARON}

RECURSIVE NamesOfLen(_)
NamesOfLen(n) ==
    IF n = 0 THEN {<<>>}
    ELSE {<<c>> \o rest : c \in NORM_ALPHABET, rest \in NamesOfLen(n - 1)}

NORM_INPUTS == {NULL} \cup UNION {NamesOfLen(n) : n \in 0..MaxNameLen}

InitNorm ==
    /\ award_records = <<>>
    /\ competitor_profiles = <<>>
    /\ pe_profiles = <<>>
    /\ pattern_insights = <<>>
    /\ op = [name |-> "init_db", status |-> "ok", arg |-> NONE, ret |-> NONE]
    /\ norm \in {[input |-> x, results |-> <<>>] : x \in NORM_INPUTS}

\* one call of normalize_company_name: on the input, then on its own result
Normalize ==
    /\ Len(norm.results) < 2
    /\ norm' = [norm EXCEPT !.results =
                   Append(@, normalize_company_name(IF @ = <<>> THEN norm.input
                                                    ELSE @[Len(@)]))]
    /\ UNCHANGED <<award_records, competitor_profiles, pe_profiles, pattern_insights, op>>

NextNorm == Normalize

SpecNorm == InitNorm /\ [][NextNorm]_vars

(***************************************************************************)
(* The Prediction Engine around its data-sufficiency gate: stores of about *)
(* MIN_DATA_FOR_TPS rows, as that many ingestions leave them, with or      *)
(* without the buyers' profiles built.                                     *)
(***************************************************************************)
\* the store after n ingestions that cycle through the given kinds of award
BulkStore(n, kinds) ==
    [i \in 1..n |-> AwardsFor(Ocid(i))[kinds[((i - 1) % Len(kinds)) + 1]]]

BULK_KINDS == {<<1>>, <<1, 2, 3, 4>>, <<1, 2, 4, 6, 3, 5, 7>>}

TPS_STORES ==
    {BulkStore(n, kinds) :
        n \in (MIN_DATA_FOR_TPS - TpsMargin)..(MIN_DATA_FOR_TPS + TpsMargin),
        kinds \in BULK_KINDS}

InitTPS ==
    /\ award_records \in TPS_STORES
    /\ competitor_profiles = <<>>
    /\ pe_profiles = <<>>
    /\ pattern_insights = <<>>
    /\ op = [name |-> "init_db", status |-> "ok", arg |-> NONE, ret |-> NONE]
    /\ norm = NormIdle

NextTPS ==
    \/ RebuildPeProfiles
    \/ \E tender \in TENDERS, company \in COMPANIES, month \in MONTHS :
           CalculateTps(tender, company, month)

SpecTPS == InitTPS /\ [][NextTPS]_vars

(***************************************************************************)
(* The PE Profile Builder on its own: awards of two buyers whose price     *)
(* ratios lie below, on, between and above the sensitivity thresholds, are *)
(* zero or are missing.                                                    *)
(***************************************************************************)
\* the ratios tried under each of the three contract ids
PE_RATIOS == << {NONE, 8800, 9000, 9600},
                {NONE, 0, 8800, 9400, 9600},
                {NONE, 8000, 9300, 9800} >>

\* the award under contract id i: the first two for one buyer, won by one
\* company under two raw spellings, the third for another buyer
PeAward(i, ratio) ==
    AwardRecord(Ocid(i),
                IF i = 3 THEN PE_TRA ELSE PE_MOF,
                IF i = 1 THEN X_LTD ELSE IF i = 2 THEN X_CO ELSE Y_INC,
                ICT,
                IF ratio = NONE THEN NONE ELSE 100 * i,
                ratio,
                DATE_MAR)

PE_INPUT_RECORDS == UNION {{PeAward(i, ratio) : ratio \in PE_RATIOS[i]} : i \in 1..3}

NextPE ==
    \/ \E rec \in PE_INPUT_RECORDS : SaveAwardRecord(rec)
    \/ RebuildPeProfiles

SpecPE == Init /\ [][NextPE]_vars

(***************************************************************************)
(* The builders and the Prediction Engine on the stores where a divisor or *)
(* a list is empty: no record at all, records without price and ratio, and *)
(* at least MIN_DATA_FOR_TPS records whose ratios are all equal or missing. *)
(***************************************************************************)
HAZARD_STORES ==
    {<<>>,
     <<AwardsFor(Ocid(1))[3]>>,
     <<AwardsFor(Ocid(1))[7]>>,
     BulkStore(MIN_DATA_FOR_TPS, <<1>>),
     BulkStore(MIN_DATA_FOR_TPS, <<3>>),
     BulkStore(MIN_DATA_FOR_TPS, <<1, 3>>),
     BulkStore(MIN_DATA_FOR_TPS, <<1, 2, 3>>)}

InitHazards ==
    /\ award_records \in HAZARD_STORES
    /\ competitor_profiles = <<>>
    /\ pe_profiles = <<>>
    /\ pattern_insights = <<>>
    /\ op = [name |-> "init_db", status |-> "ok", arg |-> NONE, ret |-> NONE]
    /\ norm = NormIdle

NextHazards ==
    \/ RebuildCompetitorProfiles
    \/ RebuildPeProfiles
    \/ \E tender \in TENDERS, month \in MONTHS : CalculateTps(tender, CLI_COMPANY, month)

SpecHazards == InitHazards /\ [][NextHazards]_vars

(***************************************************************************)
(* The operations on a database that was used before: init_db creates a    *)
(* table only if it is missing, so the profile tables may hold the rows a  *)
(* rebuild over an earlier award store left there.                         *)
(***************************************************************************)
OLD_COMPANY == <<"Z">>
OLD_PE      == <<"O","l","d">>

\* the earlier store, and the profile tables as the rebuilds over it left them
EARLIER_STORE ==
    <<AwardRecord(Ocid(9), OLD_PE, OLD_COMPANY, ICT, 100, 9000, DATE_NOV)>>

RESIDUAL_COMPETITOR_PROFILES ==
    LET profiles == CompetitorProfilesOf(CompetitorAwards(EARLIER_STORE))
    IN  [n \in DOMAIN profiles |-> CompetitorRow(profiles[n], TotalWinsMax(profiles))]

RESIDUAL_PE_PROFILES ==
    LET pe_data == PeDataOf(PeAwards(EARLIER_STORE))
    IN  [pe \in DOMAIN pe_data |-> PeRow(pe_data[pe])]

\* the feed of the new store: two contract ids, with or without price and ratio
RESIDUAL_INPUT_RECORDS == {AwardsFor(Ocid(i))[k] : i \in 1..2, k \in {1, 3}}

InitResidual ==
    /\ award_records = <<>>
    /\ competitor_profiles = RESIDUAL_COMPETITOR_PROFILES
    /\ pe_profiles = RESIDUAL_PE_PROFILES
    /\ pattern_insights = <<>>
    /\ op = [name |-> "init_db", status |-> "ok", arg |-> NONE, ret |-> NONE]
    /\ norm = NormIdle

NextResidual ==
    \/ \E rec \in RESIDUAL_INPUT_RECORDS : SaveAwardRecord(rec)
    \/ RebuildCompetitorProfiles
    \/ RebuildPeProfiles
    \/ RunPatternMining
    \/ \E month \in MONTHS : CalculateTps(CLI_TENDER, CLI_COMPANY, month)

SpecResidual == InitResidual /\ [][NextResidual]_vars

(***************************************************************************)
(* The three builders run side by side over an award store nobody writes.  *)
(* Each builder opens its own connection, SELECTs from award_records,      *)
(* computes its rows, and writes them in one transaction; the steps of     *)
(* different builders interleave.  op.arg holds each builder's position,   *)
(* op.ret the rows it holds, op.status the builders in commit order.       *)
(***************************************************************************)
BUILDERS == {"competitor", "pe", "miner"}

\* the computation of a builder raises: nothing is written
BuilderRaises(b, store) ==
    CASE b = "competitor" -> CompetitorRebuildRaises(CompetitorAwards(store))
      [] b = "pe"         -> PeRebuildRaises(PeAwards(store))
      [] b = "miner"      -> FALSE

\* the rows a builder computes from what it selected
BuilderRows(b, store) ==
    CASE b = "competitor" ->
             LET profiles == CompetitorProfilesOf(CompetitorAwards(store))
                 top      == TotalWinsMax(profiles)
             IN  [n \in DOMAIN profiles |-> CompetitorRow(profiles[n], top)]
      [] b = "pe" ->
             LET pe_data == PeDataOf(PeAwards(store))
             IN  [pe \in DOMAIN pe_data |-> PeRow(pe_data[pe])]
      [] b = "miner" -> MinedInsights(store)

\* the stores the builders run over: those of the guarded cases, and two on
\* which a builder's computation raises
ORDER_STORES ==
    HAZARD_STORES \cup {<<AwardsFor(Ocid(1))[1], AwardsFor(Ocid(2))[9]>>,
                        <<AwardsFor(Ocid(1))[1], AwardsFor(Ocid(2))[2], AwardsFor(Ocid(3))[8]>>}

\* the derived tables hold what earlier runs left in them
InitOrder ==
    /\ award_records \in ORDER_STORES
    /\ competitor_profiles = RESIDUAL_COMPETITOR_PROFILES
    /\ pe_profiles = RESIDUAL_PE_PROFILES
    /\ pattern_insights = MinedInsights(EARLIER_STORE)
    /\ op = [name |-> "builders", status |-> <<>>,
             arg |-> [b \in BUILDERS |-> "idle"], ret |-> [b \in BUILDERS |-> NONE]]
    /\ norm = NormIdle

\* the SELECTs of a builder and the computation on their result
ReadAwards(b) ==
    /\ op.arg[b] = "idle"
    /\ IF BuilderRaises(b, award_records)
       THEN op' = [op EXCEPT !.arg[b] = "raised"]
       ELSE op' = [op EXCEPT !.arg[b] = "read", !.ret[b] = BuilderRows(b, award_records)]
    /\ UNCHANGED <<award_records, competitor_profiles, pe_profiles, pattern_insights, norm>>

\* a faulty variant: a profile builder's transaction also empties the insights
CommitInvalidating(b) ==
    /\ op.arg[b] = "read"
    /\ CASE b = "competitor" ->
                /\ competitor_profiles' = Upsert(competitor_profiles, op.ret[b])
                /\ pattern_insights' = <<>>
                /\ UNCHANGED pe_profiles
         [] b = "pe" ->
                /\ pe_profiles' = Upsert(pe_profiles, op.ret[b])
                /\ pattern_insights' = <<>>
                /\ UNCHANGED competitor_profiles
         [] b = "miner" ->
                /\ pattern_insights' = op.ret[b]
                /\ UNCHANGED <<competitor_profiles, pe_profiles>>
    /\ op' = [op EXCEPT !.arg[b] = "done", !.status = Append(@, b)]
    /\ UNCHANGED <<award_records, norm>>

\* the writes of a builder and its conn.commit()
Commit(b) ==
    /\ op.arg[b] = "read"
    /\ CASE b = "competitor" ->
                /\ competitor_profiles' = Upsert(competitor_profiles, op.ret[b])
                /\ UNCHANGED <<pe_profiles, pattern_insights>>
         [] b = "pe" ->
                /\ pe_profiles' = Upsert(pe_profiles, op.ret[b])
                /\ UNCHANGED <<competitor_profiles, pattern_insights>>
         [] b = "miner" ->
                /\ pattern_insights' = op.ret[b]
                /\ UNCHANGED <<competitor_profiles, pe_profiles>>
    /\ op' = [op EXCEPT !.arg[b] = "done", !.status = Append(@, b)]
    /\ UNCHANGED <<award_records, norm>>

NextOrder ==
    \/ \E b \in BUILDERS : ReadAwards(b)
    \/ \E b \in BUILDERS : Commit(b)

SpecOrder == InitOrder /\ [][NextOrder]_vars

(***************************************************************************)
(* The PE Profile Builder over stores of eight awards: buyers with a name, *)
(* with an empty name and with none; up to seven winners of one buyer; and *)
(* award dates of four months, empty, short, missing or malformed.         *)
(***************************************************************************)
Z_CO     == <<"Z">>
DATE_JAN == <<"2","0","2","4","-","0","1","-","2","0">>
DATE_JUN == <<"2","0","2","4","-","0","6","-","3","0">>

BUYER_WINNERS == <<X_LTD, X_CO, Y_INC, LTD, UNKNOWN, NULL, Z_CO>>

\* the winners of the eight awards, by their index in BUYER_WINNERS
WINNER_PATTERNS ==
    {<<a, b, 3, 4, 5, 6, 7, x>> : a \in 1..3, b \in 1..3, x \in 1..7}

\* the award dates of the eight awards
DATE_PATTERNS ==
    {<<DATE_MAR, DATE_NOV, DATE_JAN, DATE_JUN, DATE_NOV, DATE_JUN, DATE_NOV, DATE_JAN>>,
     <<DATE_MAR, <<>>, DATE_SHORT, DATE_JUN, NULL, DATE_JUN, DATE_NOV, DATE_JAN>>,
     <<DATE_MAR, DATE_NOV, DATE_JAN, DATE_BAD, DATE_NOV, DATE_JUN, DATE_NOV, DATE_JAN>>}

\* the buyer names of the eight awards
BUYER_PATTERNS ==
    {<<PE_MOF, PE_MOF, PE_MOF, PE_MOF, PE_MOF, PE_MOF, PE_MOF, PE_MOF>>,
     <<PE_MOF, <<>>,   PE_MOF, PE_MOF, PE_MOF, PE_MOF, PE_MOF, PE_MOF>>,
     <<PE_MOF, NULL,   PE_MOF, PE_MOF, <<>>,   PE_MOF, PE_MOF, <<>> >>}

BuyerStore(buyers, winners, dates) ==
    [i \in 1..Len(winners) |->
        AwardRecord(Ocid(i), buyers[i], BUYER_WINNERS[winners[i]], ICT, 100 * i, 9000, dates[i])]

InitBuyers ==
    /\ award_records \in {BuyerStore(buyers, winners, dates) :
                             buyers \in BUYER_PATTERNS, winners \in WINNER_PATTERNS,
                             dates \in DATE_PATTERNS}
    /\ competitor_profiles = <<>>
    /\ pe_profiles = <<>>
    /\ pattern_insights = <<>>
    /\ op = [name |-> "init_db", status |-> "ok", arg |-> NONE, ret |-> NONE]
    /\ norm = NormIdle

NextBuyers == RebuildPeProfiles

SpecBuyers == InitBuyers /\ [][NextBuyers]_vars

(***************************************************************************)
(* The Pattern Miner over stores of a few awards of every combination of   *)
(* sector and winner, named, 'Unknown' or missing, and over two stores     *)
(* with more wins than the confidence cap counts.                          *)
(***************************************************************************)
LEADER_WINNERS == {X_LTD, X_CO, Y_INC, UNKNOWN, NULL}

LeaderStore(kinds) ==
    [i \in 1..Len(kinds) |->
        AwardRecord(Ocid(i), PE_MOF, kinds[i][1], kinds[i][2], 100, 9000, DATE_MAR)]

LEADER_STORES ==
    UNION {{LeaderStore(kinds) : kinds \in [1..n -> LEADER_WINNERS \X SECTORS]} :
              n \in 0..MaxRecords}
        \cup {BulkStore(LEADER_CONFIDENCE_POINTS + 2, <<1>>),
              BulkStore(2 * LEADER_CONFIDENCE_POINTS + 2, <<1, 6, 5>>)}

InitLeaders ==
    /\ award_records \in LEADER_STORES
    /\ competitor_profiles = <<>>
    /\ pe_profiles = <<>>
    /\ pattern_insights = <<>>
    /\ op = [name |-> "init_db", status |-> "ok", arg |-> NONE, ret |-> NONE]
    /\ norm = NormIdle

NextLeaders == RunPatternMining

SpecLeaders == InitLeaders /\ [][NextLeaders]_vars

(***************************************************************************)
(* run_platform_scraper and run_full_pipeline.  The data source answers    *)
(* each fetch with any page: a list of releases, none after a failed       *)
(* request, and a next cursor or none.  One step of the scraper is one     *)
(* pass of its while loop.  During a scraper run op.arg holds the cursor   *)
(* and the number of stored records at its start, op.ret the local         *)
(* `saved`.  The pipeline's position is the operation that ran last.       *)
(***************************************************************************)
MaxSaved == 4

\* an award of an OCDS release, and a release of the source
OcdsAward(supplier, amount, date) ==
    [supplier |-> supplier, amount |-> amount, date |-> date]

OcdsRelease(ocid, awards) ==
    [ocid |-> ocid, buyer |-> PE_MOF, sector |-> ICT, estimate |-> 1000, awards |-> awards]

RELEASES ==
    {OcdsRelease(Ocid(1), <<>>),
     OcdsRelease(Ocid(1), <<OcdsAward(X_LTD, 900, DATE_MAR)>>),
     OcdsRelease(Ocid(2), <<OcdsAward(Y_INC, NONE, DATE_NOV)>>),
     OcdsRelease(Ocid(2), <<OcdsAward(X_CO, 940, DATE_BAD)>>)}

\* `if not awards: return None`
Parses(release) == release.awards # <<>>

\* parse_ocds_release on a release with awards: the first award's supplier
\* normalized, the ratio where price and estimate are known, the date cut to
\* 10 characters
ParseOcdsRelease(release) ==
    LET award == release.awards[1]
        ratio == IF Truthy(award.amount) /\ Truthy(release.estimate) /\ release.estimate > 0
                 THEN RoundDiv(10000 * award.amount, release.estimate)
                 ELSE NONE
    IN  AwardRecord(release.ocid, release.buyer, Normalized(award.supplier), release.sector,
                    award.amount, ratio, Take(award.date, 10))

\* the pages a fetch may return; cursor NONE stands for a missing or null key
CURSORS == {NONE, 0, 1, 2}

PAGES ==
    [releases    : {<<>>} \cup {<<r>> : r \in RELEASES}
                         \cup {<<r, q>> : r \in RELEASES, q \in RELEASES},
     next_cursor : CURSORS]

\* the store after the for loop over a page's releases
RECURSIVE SaveReleases(_, _)
SaveReleases(table, releases) ==
    IF releases = <<>> THEN table
    ELSE IF Parses(Head(releases))
         THEN SaveReleases(InsertOrIgnore(table, ParseOcdsRelease(Head(releases))),
                           Tail(releases))
         ELSE SaveReleases(table, Tail(releases))

\* what the for loop adds to `saved`: one per release that yields a record
SavedInPage(releases) == Len(SelectSeq(releases, Parses))

\* `if not next_cur or next_cur == cursor: break`
LoopBreaks(cursor, next_cur) == next_cur = NONE \/ next_cur = 0 \/ next_cur = cursor

\* run_platform_scraper is entered: saved = 0, cursor = 0
StartScraper ==
    /\ op.name \in {"init_db", "run_full_pipeline"}
    /\ op' = [name |-> "run_platform_scraper", status |-> "running",
              arg |-> [cursor |-> 0, before |-> Len(award_records)], ret |-> 0]
    /\ UNCHANGED <<award_records, competitor_profiles, pe_profiles, pattern_insights, norm>>

\* one pass of the while loop on the page the source returned
ScrapePage(page) ==
    /\ op.name = "run_platform_scraper" /\ op.status = "running"
    /\ op.ret + SavedInPage(page.releases) <= MaxSaved
    /\ IF page.releases = <<>>
       THEN /\ op' = [op EXCEPT !.status = "returned"]
            /\ UNCHANGED award_records
       ELSE /\ award_records' = SaveReleases(award_records, page.releases)
            /\ op' = [op EXCEPT !.ret = @ + SavedInPage(page.releases),
                                !.status = IF LoopBreaks(op.arg.cursor, page.next_cursor)
                                           THEN "returned" ELSE "running",
                                !.arg.cursor = IF LoopBreaks(op.arg.cursor, page.next_cursor)
                                               THEN @ ELSE page.next_cursor]
    /\ UNCHANGED <<competitor_profiles, pe_profiles, pattern_insights, norm>>

\* the return of run_full_pipeline after the fourth step
PipelineReturns ==
    /\ op.name = "run_pattern_mining"
    /\ op' = [name |-> "run_full_pipeline", status |-> "ok", arg |-> NONE,
              ret |-> [total_awards |-> Len(award_records), patterns |-> Len(op.ret)]]
    /\ UNCHANGED <<award_records, competitor_profiles, pe_profiles, pattern_insights, norm>>

\* an exception of a rebuild leaves run_full_pipeline: the later steps do not run
PipelineRaises ==
    /\ op.name \in {"rebuild_competitor_profiles", "rebuild_pe_profiles"}
    /\ op.status = "raised"
    /\ op' = [name |-> "run_full_pipeline", status |-> "raised", arg |-> NONE, ret |-> NONE]
    /\ UNCHANGED <<award_records, competitor_profiles, pe_profiles, pattern_insights, norm>>

\* run_full_pipeline, over and over as in watch_mode
NextPipeline ==
    \/ StartScraper
    \/ \E page \in PAGES : ScrapePage(page)
    \/ (op.name = "run_platform_scraper" /\ op.status = "returned") /\ RebuildCompetitorProfiles
    \/ (op.name = "rebuild_competitor_profiles" /\ op.status = "ok") /\ RebuildPeProfiles
    \/ (op.name = "rebuild_pe_profiles" /\ op.status = "ok") /\ RunPatternMining
    \/ PipelineReturns
    \/ PipelineRaises

SpecPipeline == Init /\ [][NextPipeline]_vars

\* a running scraper keeps executing its loop
SpecPipelineFair == SpecPipeline /\ WF_vars(\E page \in PAGES : ScrapePage(page))

(***************************************************************************)
(* A mining pass statement by statement, next to a reader on a connection  *)
(* of its own.  db_conn opens the connection with sqlite3's default        *)
(* isolation level, so the DELETE opens a transaction that the INSERTs     *)
(* join and conn.commit() ends; until then other connections read the      *)
(* committed table, which is the variable pattern_insights.  op.ret is the *)
(* table as the pass's own connection sees it, op.arg holds the list       *)
(* `insights`, the table at the start of the pass and what the reader got  *)
(* since.                                                                  *)
(***************************************************************************)
MINING_STORES ==
    {<<>>,
     <<AwardsFor(Ocid(1))[1]>>,
     <<AwardsFor(Ocid(1))[1], AwardsFor(Ocid(2))[5]>>,
     BulkStore(LEADER_CONFIDENCE_POINTS, <<1, 2, 4>>)}

\* the insights of an earlier pass over an earlier store are in the table
InitMining ==
    /\ award_records \in MINING_STORES
    /\ competitor_profiles = <<>>
    /\ pe_profiles = <<>>
    /\ pattern_insights \in {MinedInsights(store) : store \in MINING_STORES}
    /\ op = [name |-> "init_db", status |-> "ok",
             arg |-> [insights |-> <<>>, previous |-> pattern_insights,
                      read |-> FALSE, seen |-> <<>>],
             ret |-> <<>>]
    /\ norm = NormIdle

MiningAt(position) == op.name = "run_pattern_mining" /\ op.status = position

\* the four SELECT passes: the list `insights` is built, nothing is written
MinerSelects ==
    /\ op.name = "init_db" \/ MiningAt("committed") \/ MiningAt("failed")
    /\ op' = [name |-> "run_pattern_mining", status |-> "selected",
              arg |-> [insights |-> MinedInsights(award_records),
                       previous |-> pattern_insights, read |-> FALSE, seen |-> <<>>],
              ret |-> pattern_insights]
    /\ UNCHANGED <<award_records, competitor_profiles, pe_profiles, pattern_insights, norm>>

\* a faulty variant: a connection in autocommit mode, the DELETE takes effect at once
MinerDeletesAutocommit ==
    /\ MiningAt("selected")
    /\ pattern_insights' = <<>>
    /\ op' = [op EXCEPT !.status = "deleted", !.ret = <<>>]
    /\ UNCHANGED <<award_records, competitor_profiles, pe_profiles, norm>>

\* DELETE FROM pattern_insights, inside the transaction it opens
MinerDeletes ==
    /\ MiningAt("selected")
    /\ op' = [op EXCEPT !.status = "deleted", !.ret = <<>>]
    /\ UNCHANGED <<award_records, competitor_profiles, pe_profiles, pattern_insights, norm>>

\* one INSERT of the for loop, inside the transaction
MinerInserts ==
    /\ MiningAt("deleted")
    /\ Len(op.ret) < Len(op.arg.insights)
    /\ op' = [op EXCEPT !.ret = Append(@, op.arg.insights[Len(op.ret) + 1])]
    /\ UNCHANGED <<award_records, competitor_profiles, pe_profiles, pattern_insights, norm>>

\* conn.commit() after the last INSERT
MinerCommits ==
    /\ MiningAt("deleted")
    /\ Len(op.ret) = Len(op.arg.insights)
    /\ pattern_insights' = op.ret
    /\ op' = [op EXCEPT !.status = "committed"]
    /\ UNCHANGED <<award_records, competitor_profiles, pe_profiles, norm>>

\* a statement raises: the function is left without commit, and closing the
\* connection rolls the transaction back
MinerFails ==
    /\ MiningAt("selected") \/ MiningAt("deleted")
    /\ op' = [op EXCEPT !.status = "failed", !.ret = pattern_insights]
    /\ UNCHANGED <<award_records, competitor_profiles, pe_profiles, pattern_insights, norm>>

\* get_intelligence_report on another connection: SELECT * FROM pattern_insights
ReaderReads ==
    /\ op.name = "run_pattern_mining"
    /\ op' = [op EXCEPT !.arg.read = TRUE, !.arg.seen = pattern_insights]
    /\ UNCHANGED <<award_records, competitor_profiles, pe_profiles, pattern_insights, norm>>

NextMining ==
    \/ MinerSelects
    \/ MinerDeletes
    \/ MinerInserts
    \/ MinerCommits
    \/ MinerFails
    \/ ReaderReads

SpecMining == InitMining /\ [][NextMining]_vars

(***************************************************************************)
(* The closing steps of calculate_tps on their own: factor-score vectors   *)
(* of [0,1]^7 combined into a score, and the score labelled.               *)
(***************************************************************************)
\* the values a factor takes in the vectors tried: the ends of [0,1] for most,
\* finer steps for the two lightest weights so that every score 0..100 occurs
FACTOR_VALUES ==
    [f \in FACTORS |->
        IF f = "seasonal_timing"
        THEN {0, 200000, 400000, 500000, 600000, 800000, ONE}
        ELSE IF f = "compliance_readiness" THEN {0, 500000, ONE}
        ELSE {0, ONE}]

SCORE_VECTORS == {v \in [FACTORS -> {0, 200000, 400000, 500000, 600000, 800000, ONE}] :
                     \A f \in FACTORS : v[f] \in FACTOR_VALUES[f]}

InitScore ==
    /\ award_records = <<>>
    /\ competitor_profiles = <<>>
    /\ pe_profiles = <<>>
    /\ pattern_insights = <<>>
    /\ norm = NormIdle
    /\ op \in {[name |-> "scores", status |-> "ok", arg |-> v, ret |-> NONE] :
                  v \in SCORE_VECTORS}

\* tps_raw = sum(scores[factor] * weight ...); tps = round(tps_raw * 100)
CombineScores ==
    /\ op.name = "scores"
    /\ \E tps \in TpsValues(op.arg) :
           op' = [name |-> "tps", status |-> "ok", arg |-> op.arg,
                  ret |-> [tps_raw |-> WeightedSum(op.arg, FACTORS), tps |-> tps]]
    /\ UNCHANGED <<award_records, competitor_profiles, pe_profiles, pattern_insights, norm>>

\* the if/elif chain that picks label and action
LabelScore ==
    /\ op.name = "tps"
    /\ op' = [name |-> "label", status |-> "ok", arg |-> op.ret.tps,
              ret |-> [label |-> TpsLabel(op.ret.tps), action |-> TpsAction(op.ret.tps)]]
    /\ UNCHANGED <<award_records, competitor_profiles, pe_profiles, pattern_insights, norm>>

NextScore == CombineScores \/ LabelScore

SpecScore == InitScore /\ [][NextScore]_vars

(***************************************************************************)
(* Properties of rebuild_competitor_profiles (under SpecCompetitor).       *)
(***************************************************************************)
\* the state right after a competitor rebuild that returned normally
CompetitorRebuilt ==
    op.name = "rebuild_competitor_profiles" /\ op.status = "ok"

\* the names the rebuild just wrote, and their persisted threat scores
RebuiltNames == DOMAIN op.ret
ThreatOf(n) == competitor_profiles[n].threat_score
TopNames == {n \in RebuiltNames : ThreatOf(n) = 1000}

RECURSIVE SumWins(_, _)
SumWins(profiles, names) ==
    IF names = {} THEN 0
    ELSE LET n == CHOOSE x \in names : TRUE
         IN  profiles[n].total_wins + SumWins(profiles, names \ {n})

\* C1, as stated: after a rebuild with at least one counted win every rebuilt
\* profile has 0 <= threat_score <= 1 and exactly one profile has
\* threat_score 1.0, also when competitors share the maximum win count.
C1_ExactlyOneTopThreat ==
    (CompetitorRebuilt /\ RebuiltNames # {}) =>
        /\ \A n \in RebuiltNames : ThreatOf(n) >= 0 /\ ThreatOf(n) <= 1000
        /\ Cardinality(TopNames) = 1

\* C1, amended: after a rebuild with at least one counted win every rebuilt
\* profile has threat_score = total_wins / max wins (3 places), within [0,1],
\* and the profiles with threat_score 1.0 are the holders of the maximum win
\* count: one when the maximum is unique, all of them when it is shared.
C1_TopThreatIsEveryMaxWinner ==
    (CompetitorRebuilt /\ RebuiltNames # {}) =>
        LET most == SetMax({op.ret[n].total_wins : n \in RebuiltNames})
        IN  /\ \A n \in RebuiltNames :
                   /\ ThreatOf(n) >= 0 /\ ThreatOf(n) <= 1000
                   /\ ThreatOf(n) = RoundDiv(1000 * op.ret[n].total_wins, most)
            /\ TopNames = {n \in RebuiltNames : op.ret[n].total_wins = most}
            /\ TopNames # {}

\* a rebuild over a store in which two competitors share the maximum
C1_TiedMaximum ==
    /\ CompetitorRebuilt
    /\ Cardinality(TopNames) >= 2

\* C2: after a competitor rebuild the sum of total_wins over the profiles it
\* produced equals the number of stored award records whose winner is not
\* "Unknown" (the winner as normalize_company_name resolves it).
C2_WinsSumToKnownWinners ==
    CompetitorRebuilt =>
        SumWins(op.ret, RebuiltNames) =
            Cardinality({i \in 1..Len(award_records) :
                            Normalized(award_records[i].winning_company) # UNKNOWN})

\* C3: no profile keyed "Unknown" is ever produced or persisted, also for
\* raw names such as "Ltd" or "Co." that normalize to "Unknown".
C3_NoUnknownProfile ==
    /\ UNKNOWN \notin DOMAIN competitor_profiles
    /\ CompetitorRebuilt => UNKNOWN \notin RebuiltNames

(***************************************************************************)
(* Properties of the store and its operations (under Spec).                *)
(***************************************************************************)
\* the records a rebuild can group: the date is text and, if it has a month,
\* the month is a number
WellFormed(a) ==
    /\ a.award_date # NULL
    /\ HasMonth(a.award_date) => MonthParses(a.award_date)

\* C4: a malformed award record met during rebuild_competitor_profiles or
\* rebuild_pe_profiles is skipped: the rebuild terminates normally and
\* persists the profiles of all well-formed records.
C4_MalformedRecordSkipped ==
    /\ op.name = "rebuild_competitor_profiles" =>
           /\ op.status = "ok"
           /\ \A i \in 1..Len(award_records) :
                  LET a == award_records[i]
                  IN  (WellFormed(a) /\ a.winning_company \notin {NULL, UNKNOWN})
                          => CompetitorKey(a) \in DOMAIN competitor_profiles
    /\ op.name = "rebuild_pe_profiles" =>
           /\ op.status = "ok"
           /\ \A i \in 1..Len(award_records) :
                  LET a == award_records[i]
                  IN  (WellFormed(a) /\ a.pe_name # NULL)
                          => a.pe_name \in DOMAIN pe_profiles

\* C5: ingesting a record whose ocid is already stored is a no-op: the store
\* keeps its rows, in number and in every field, whatever the duplicate holds.
C5_DuplicateIngestionIsNoOp ==
    [][(op'.name = "save_award_record" /\ HasOcid(award_records, op'.arg.ocid))
           => award_records' = award_records]_vars

\* a duplicate that differs from the stored row was ingested, the row stayed
C5_DuplicateIgnored ==
    /\ op.name = "save_award_record"
    /\ \E i \in 1..Len(award_records) :
           /\ award_records[i].ocid = op.arg.ocid
           /\ award_records[i] # op.arg

\* C6: the award store is append-only: whatever operation runs, every stored
\* record is still there afterwards, in place and with the same field values.
C6_AwardStoreAppendOnly ==
    [][/\ Len(award_records') >= Len(award_records)
       /\ SubSeq(award_records', 1, Len(award_records)) = award_records]_vars

\* a store of several records that went through rebuilds, mining and a TPS call
C6_StoreAfterEveryOperation ==
    /\ Len(award_records) >= 2
    /\ DOMAIN competitor_profiles # {}
    /\ DOMAIN pe_profiles # {}
    /\ pattern_insights # <<>>
    /\ op.name = "calculate_tps"

(***************************************************************************)
(* Properties of normalize_company_name (under SpecNorm).                  *)
(***************************************************************************)
\* C7: normalize_company_name is idempotent: for every input x,
\* normalize(normalize(x)) = normalize(x).
C7_NormalizeIdempotent ==
    Len(norm.results) = 2 => norm.results[2] = norm.results[1]

\* punctuation: neither letter, digit, whitespace nor combining mark
IsPunctuation(c) ==
    ~IsCased(c) /\ c \notin Digits /\ ~IsSpaceChar(c) /\ c # CARON

\* whether s is made only of whole legal-entity words, punctuation and whitespace
RECURSIVE OnlyStrippable(_)
OnlyStrippable(s) ==
    \/ s = <<>>
    \/ /\ s # <<>>
       /\ IsPunctuation(Head(s)) \/ IsSpaceChar(Head(s))
       /\ OnlyStrippable(Tail(s))
    \/ \E k \in 1..Len(SUFFIX_WORDS) :
           LET w == SUFFIX_WORDS[k]
           IN  /\ Len(w) <= Len(s)
               /\ LowerStr(SubSeq(s, 1, Len(w))) = w
               /\ \/ Len(s) = Len(w)
                  \/ IsPunctuation(s[Len(w) + 1])
                  \/ IsSpaceChar(s[Len(w) + 1])
               /\ OnlyStrippable(SubSeq(s, Len(w) + 1, Len(s)))

\* C8: normalize_company_name returns "Unknown" for "", for None and for every
\* input made only of stripped legal-entity words, punctuation and
\* whitespace; for no input does it return the empty string.
C8_UnknownForStrippedInput ==
    Len(norm.results) >= 1 =>
        /\ norm.results[1] # <<>>
        /\ (norm.input = NULL \/ OnlyStrippable(norm.input))
               => norm.results[1] = UNKNOWN

(***************************************************************************)
(* Properties of calculate_tps (under SpecTPS).                            *)
(***************************************************************************)
\* the state right after a calculate_tps call that passed the gate
TpsScored == op.name = "calculate_tps" /\ "scores" \in DOMAIN op.ret

\* C9: calculate_tps returns tps None, with a message and no label, whenever
\* fewer than 50 award records are stored; with 50 or more it returns an
\* integer tps in [0,100], for any tender and company profile.
C9_GateThenScoreInRange ==
    op.name = "calculate_tps" =>
        IF Len(award_records) < 50
        THEN /\ op.ret.tps = NONE
             /\ "message" \in DOMAIN op.ret
             /\ "label" \notin DOMAIN op.ret
        ELSE /\ "label" \in DOMAIN op.ret
             /\ op.ret.tps \in 0..100

\* C10: each of the seven factor scores calculate_tps computes lies in [0,1],
\* for every store, buyer profile and caller-supplied company profile.
C10_FactorScoresInUnitInterval ==
    TpsScored => \A f \in FACTORS : op.ret.scores[f] >= 0 /\ op.ret.scores[f] <= ONE

(***************************************************************************)
(* Properties of the score and its label (under SpecScore).                *)
(***************************************************************************)
\* C11: the seven TPS weights are non-negative and sum to 1 (100 percent), so
\* for every factor-score vector in [0,1]^7 the weighted sum before rounding
\* lies in [0,1] and the rounded score lies in [0,100].
C11_WeightClosure ==
    /\ \A f \in FACTORS : TPS_WEIGHTS[f] >= 0
    /\ WeightedSum([f \in FACTORS |-> 1], FACTORS) = 100
    /\ op.name = "tps" =>
           /\ \A f \in FACTORS : op.arg[f] >= 0 /\ op.arg[f] <= ONE
           /\ op.ret.tps_raw >= 0 /\ op.ret.tps_raw <= 100 * ONE
           /\ op.ret.tps \in 0..100

\* the vector of all ones was combined: the score is at the top of its range
C11_FullScore ==
    /\ op.name = "tps"
    /\ \A f \in FACTORS : op.arg[f] = ONE
    /\ op.ret.tps = 100

\* the score and the label of the state, where it holds a labelled score
HasLabelledScore == op.name = "label" \/ TpsScored
LabelledTps == IF op.name = "label" THEN op.arg ELSE op.ret.tps
LabelGiven  == op.ret.label

\* C12: the four label bands partition the scores: HIGH iff tps >= 75, MEDIUM
\* iff 55 <= tps <= 74, LOW iff 35 <= tps <= 54, VERY LOW iff tps <= 34, and a
\* labelled result carries the label of its own tps.
C12_LabelBandsPartition ==
    HasLabelledScore =>
        /\ LabelGiven \in {"HIGH", "MEDIUM", "LOW", "VERY LOW"}
        /\ LabelGiven = "HIGH" <=> LabelledTps >= 75
        /\ LabelGiven = "MEDIUM" <=> (LabelledTps >= 55 /\ LabelledTps <= 74)
        /\ LabelGiven = "LOW" <=> (LabelledTps >= 35 /\ LabelledTps <= 54)
        /\ LabelGiven = "VERY LOW" <=> LabelledTps <= 34

\* a score on a band edge was labelled
C12_BandEdgeLabelled ==
    /\ op.name = "label"
    /\ op.arg \in {75, 55, 35}
    /\ op.ret.label = TpsLabel(op.arg)

(***************************************************************************)
(* Properties of run_pattern_mining (under Spec).                          *)
(***************************************************************************)
\* C13: after a mining pass pattern_insights holds the insights of that pass
\* and nothing else, and a pass that follows a pass on the unchanged store
\* leaves the table as it was: same texts, same count, no accumulation.
C13_MinerReplaces ==
    [][op'.name = "run_pattern_mining" =>
           /\ pattern_insights' = op'.ret
           /\ (op.name = "run_pattern_mining" /\ award_records' = award_records)
                  => pattern_insights' = pattern_insights]_vars

\* a pass over a store that yields several insights has run
C13_SeveralInsightsMined ==
    /\ op.name = "run_pattern_mining"
    /\ Len(pattern_insights) >= 2
    /\ pattern_insights = MinedInsights(award_records)

(***************************************************************************)
(* Properties of rebuild_pe_profiles (under SpecPE).                       *)
(***************************************************************************)
\* the state right after a PE rebuild that returned normally
PeRebuilt == op.name = "rebuild_pe_profiles" /\ op.status = "ok"

\* the stored records of a buyer, and their ratios
RecordsOf(pe) == SelectSeq(award_records, LAMBDA a : a.pe_name = pe)
RatiosOf(pe) == {RecordsOf(pe)[i].price_ratio : i \in 1..Len(RecordsOf(pe))}

\* C14: a buyer's price-sensitivity label follows its average price ratio:
\* below 0.88 HIGH, above 0.96 LOW, otherwise (0.88 and 0.96 included) MEDIUM;
\* award ratios all 0.80 give HIGH, all 0.93 MEDIUM, all 0.98 LOW.
C14_SensitivityThresholds ==
    PeRebuilt =>
        \A pe \in DOMAIN op.ret :
            LET row == pe_profiles[pe]
            IN  /\ row.price_sensitivity = "HIGH" <=> row.avg_price_ratio < 8800
                /\ row.price_sensitivity = "LOW" <=> row.avg_price_ratio > 9600
                /\ row.price_sensitivity = "MEDIUM" <=>
                       (row.avg_price_ratio >= 8800 /\ row.avg_price_ratio <= 9600)
                /\ RatiosOf(pe) = {8000} => row.price_sensitivity = "HIGH"
                /\ RatiosOf(pe) = {9300} => row.price_sensitivity = "MEDIUM"
                /\ RatiosOf(pe) = {9800} => row.price_sensitivity = "LOW"
                /\ RatiosOf(pe) \in {{8800}, {9600}} => row.price_sensitivity = "MEDIUM"

\* a buyer whose awards all sit on a threshold was profiled, next to a buyer
\* below the lower one
C14_BuyersAtAndBelowThreshold ==
    /\ PeRebuilt
    /\ PE_MOF \in DOMAIN op.ret /\ PE_TRA \in DOMAIN op.ret
    /\ Len(RecordsOf(PE_MOF)) = 2
    /\ RatiosOf(PE_MOF) = {8800}
    /\ RatiosOf(PE_TRA) = {8000}
    /\ pe_profiles[PE_TRA].price_sensitivity = "HIGH"

\* the ratios of a buyer's records that are not NULL, in store order
KnownRatiosOf(pe) ==
    SelectSeq([i \in 1..Len(RecordsOf(pe)) |-> RecordsOf(pe)[i].price_ratio],
              LAMBDA r : r # NONE)

\* C15: after rebuild_pe_profiles each buyer's profile has total_awards equal
\* to the number of stored records of that buyer and avg_price_ratio equal to
\* the arithmetic mean of those records' known price ratios; ratios 0.90 and
\* 0.94 give avg_price_ratio 0.92, MEDIUM, total_awards 2.
C15_TotalsAndMeanRatio ==
    PeRebuilt =>
        \A pe \in DOMAIN op.ret :
            LET row   == pe_profiles[pe]
                known == KnownRatiosOf(pe)
            IN  /\ row.total_awards = Len(RecordsOf(pe))
                /\ known # <<>> => row.avg_price_ratio * Len(known) = SumSeq(known)
                /\ known = <<9000, 9400>> =>
                       /\ row.avg_price_ratio = 9200
                       /\ row.price_sensitivity = "MEDIUM"
                       /\ row.total_awards = 2

\* C16: the PE builder's per-buyer winner histogram treats two raw names with
\* the same normalize_company_name form as one company: no two entries of a
\* buyer's top winners share their normalized name.
C16_WinnersGroupedByNormalizedName ==
    PeRebuilt =>
        \A pe \in DOMAIN op.ret :
            LET top == pe_profiles[pe].top_winners
            IN  \A i, j \in 1..Len(top) :
                    i # j => Normalized(top[i]) # Normalized(top[j])

(***************************************************************************)
(* Properties of the guards against empty lists and zero divisors (under   *)
(* SpecHazards).                                                           *)
(***************************************************************************)
\* the stored records a competitor profile is built from, and of a sector
WinsOf(name) ==
    SelectSeq(CompetitorAwards(award_records), LAMBDA a : CompetitorKey(a) = name)
SectorRatios(sector) ==
    {award_records[i].price_ratio : i \in {k \in 1..Len(award_records) :
                                              award_records[k].sector = sector}} \ {NONE}

\* C17: the empty-set and zero-divisor hazards are guarded: a competitor
\* rebuild without any counted win completes and produces no profile; an
\* empty ratio list gives a NULL average for a competitor and 0.93, hence
\* MEDIUM, for a buyer; an empty price list gives a NULL price range; in
\* calculate_tps a zero ratio span is replaced by 0.1, and missing ratios
\* give the flat 0.60.
C17_HazardsGuarded ==
    /\ (op.name = "rebuild_competitor_profiles" /\ CompetitorAwards(award_records) = <<>>)
           => (op.status = "ok" /\ DOMAIN op.ret = {} /\ DOMAIN competitor_profiles = {})
    /\ CompetitorRebuilt =>
           \A n \in RebuiltNames :
               LET row == competitor_profiles[n]
               IN  /\ (\A i \in 1..Len(WinsOf(n)) : WinsOf(n)[i].price_ratio = NONE)
                          => row.avg_price_ratio = NONE
                   /\ (\A i \in 1..Len(WinsOf(n)) : WinsOf(n)[i].contract_price = NONE)
                          => (row.price_range_min = NONE /\ row.price_range_max = NONE)
    /\ PeRebuilt =>
           \A pe \in DOMAIN op.ret :
               RatiosOf(pe) = {NONE} =>
                   /\ pe_profiles[pe].avg_price_ratio = 9300
                   /\ pe_profiles[pe].price_sensitivity = "MEDIUM"
    /\ TpsScored =>
           LET ratios == SectorRatios(op.arg.tender.sector)
               ours   == op.arg.company.typical_price_ratio
               score  == op.ret.scores.price_competitiveness
           IN  /\ ratios = {} => score = 600000
               /\ \A r \in ratios :
                      ratios = {r} => score = Max2(200000, ONE - 1000 * Abs(ours - r))

\* a tender was scored in a sector whose stored ratios are all equal
C17_ZeroSpanScored ==
    /\ TpsScored
    /\ SectorRatios(op.arg.tender.sector) = {9000}
    /\ op.arg.company.typical_price_ratio = 9200
    /\ op.ret.scores.price_competitiveness = 800000

(***************************************************************************)
(* Properties of the profile tables (under SpecResidual).                  *)
(***************************************************************************)
\* C18: the profile tables are upsert-only: no operation deletes a row of
\* competitor_profiles or pe_profiles, so their key sets only grow, and a row
\* changes only in a rebuild of its table that has wins for its key; a row
\* whose company has no wins in the current rebuild stays as it was.
C18_ProfilesUpsertOnly ==
    [][/\ DOMAIN competitor_profiles \subseteq DOMAIN competitor_profiles'
       /\ DOMAIN pe_profiles \subseteq DOMAIN pe_profiles'
       /\ \A k \in DOMAIN competitor_profiles :
              \/ competitor_profiles'[k] = competitor_profiles[k]
              \/ /\ op'.name = "rebuild_competitor_profiles" /\ op'.status = "ok"
                 /\ k \in DOMAIN op'.ret
       /\ \A k \in DOMAIN pe_profiles :
              \/ pe_profiles'[k] = pe_profiles[k]
              \/ /\ op'.name = "rebuild_pe_profiles" /\ op'.status = "ok"
                 /\ k \in DOMAIN op'.ret]_vars

\* a rebuild wrote the profiles of the current winners and left the row of a
\* company without current wins in place
C18_StaleRowKept ==
    /\ CompetitorRebuilt
    /\ RebuiltNames # {}
    /\ Normalized(OLD_COMPANY) \notin RebuiltNames
    /\ Normalized(OLD_COMPANY) \in DOMAIN competitor_profiles
    /\ competitor_profiles[Normalized(OLD_COMPANY)]
           = RESIDUAL_COMPETITOR_PROFILES[Normalized(OLD_COMPANY)]
    /\ OLD_PE \in DOMAIN pe_profiles

(***************************************************************************)
(* Properties of the builders run side by side (under SpecOrder).          *)
(***************************************************************************)
\* the derived table a builder writes
TableOf(b) ==
    CASE b = "competitor" -> competitor_profiles
      [] b = "pe"         -> pe_profiles
      [] b = "miner"      -> pattern_insights

\* the derived tables before any builder ran
TablesBefore ==
    [competitor |-> RESIDUAL_COMPETITOR_PROFILES,
     pe         |-> RESIDUAL_PE_PROFILES,
     miner      |-> MinedInsights(EARLIER_STORE)]

\* the derived tables after rebuild_competitor_profiles, rebuild_pe_profiles
\* and run_pattern_mining ran one after the other over the store
TablesAfterSequentialRun(store) ==
    [competitor |-> IF BuilderRaises("competitor", store) THEN TablesBefore.competitor
                    ELSE Upsert(TablesBefore.competitor, BuilderRows("competitor", store)),
     pe         |-> IF BuilderRaises("pe", store) THEN TablesBefore.pe
                    ELSE Upsert(TablesBefore.pe, BuilderRows("pe", store)),
     miner      |-> MinedInsights(store)]

AllBuildersFinished == \A b \in BUILDERS : op.arg[b] \in {"done", "raised"}

\* C19: each builder reads only award_records and writes only its own table:
\* at every point of every interleaving a derived table holds what it held
\* before, until its own builder commits, and from then on what a sequential
\* run leaves in it; so when the three have finished, in whatever order, the
\* three tables are those of the sequential run.
C19_AnyOrderAsSequential ==
    /\ \A b \in BUILDERS :
           TableOf(b) = IF op.arg[b] = "done"
                        THEN TablesAfterSequentialRun(award_records)[b]
                        ELSE TablesBefore[b]
    /\ AllBuildersFinished =>
           \A b \in BUILDERS : TableOf(b) = TablesAfterSequentialRun(award_records)[b]

\* the three builders committed in the reverse of the pipeline's order, each
\* having written rows
C19_ReverseOrderFinished ==
    /\ op.status = <<"miner", "pe", "competitor">>
    /\ DOMAIN competitor_profiles # DOMAIN RESIDUAL_COMPETITOR_PROFILES
    /\ DOMAIN pe_profiles # DOMAIN RESIDUAL_PE_PROFILES
    /\ pattern_insights # <<>>

(***************************************************************************)
(* The effect of calculate_tps on the store (under SpecHazards).           *)
(***************************************************************************)
\* C20: calculate_tps is read-only: whether it returns the gated null result
\* or a score, award_records, competitor_profiles, pe_profiles and
\* pattern_insights are after the call what they were before it.
C20_TpsReadOnly ==
    [][op'.name = "calculate_tps" =>
           /\ award_records' = award_records
           /\ competitor_profiles' = competitor_profiles
           /\ pe_profiles' = pe_profiles
           /\ pattern_insights' = pattern_insights]_vars

\* a score has been returned over a store whose profile tables are filled
C20_ScoredOverFilledTables ==
    /\ TpsScored
    /\ op.ret.tps \in 0..100
    /\ ~TpsGated(Len(award_records))
    /\ DOMAIN competitor_profiles # {}
    /\ DOMAIN pe_profiles # {}

(***************************************************************************)
(* Properties of rebuild_pe_profiles over buyers, winners and dates (under *)
(* SpecBuyers).                                                            *)
(***************************************************************************)
\* the indices of the stored records of a buyer, and of those won by a company
IndicesOf(pe) == {i \in 1..Len(award_records) : award_records[i].pe_name = pe}
IndicesWonBy(pe, w) == {i \in IndicesOf(pe) : award_records[i].winning_company = w}
WinnersAt(pe) == {award_records[i].winning_company : i \in IndicesOf(pe)}

\* C22: rebuild_pe_profiles leaves out the records without a buyer name, NULL
\* or empty: none of them produces a profile or is counted in a total, so no
\* pe_profiles row has an empty key.
C22_NoProfileWithoutBuyerName ==
    PeRebuilt =>
        /\ \A pe \in DOMAIN pe_profiles : pe # NULL /\ pe # <<>>
        /\ \A i \in 1..Len(award_records) :
               award_records[i].pe_name \in {NULL, <<>>}
                   => award_records[i].pe_name \notin DOMAIN op.ret

\* C24: a buyer's top_winners holds at most 5 names, all of them distinct
\* winners of that buyer, by win count descending and, among equal counts, in
\* the order of their first record; no winner left out has more wins than one
\* that is listed.
C24_TopWinnersRanked ==
    PeRebuilt =>
        \A pe \in DOMAIN op.ret :
            LET top      == pe_profiles[pe].top_winners
                wins(w)  == Cardinality(IndicesWonBy(pe, w))
                first(w) == SetMin(IndicesWonBy(pe, w))
                listed   == {top[i] : i \in 1..Len(top)}
            IN  /\ Len(top) = Min2(5, Cardinality(WinnersAt(pe)))
                /\ listed \subseteq WinnersAt(pe)
                /\ Cardinality(listed) = Len(top)
                /\ \A i, j \in 1..Len(top) :
                       i < j => \/ wins(top[i]) > wins(top[j])
                                \/ /\ wins(top[i]) = wins(top[j])
                                   /\ first(top[i]) < first(top[j])
                /\ \A w \in WinnersAt(pe) \ listed, v \in listed :
                       \/ wins(w) < wins(v)
                       \/ wins(w) = wins(v) /\ first(v) < first(w)

\* a buyer with seven winners: the one seen last leads with two wins, the
\* next four follow in the order of their first record, two are left out
C24_SevenWinnersCut ==
    /\ PeRebuilt
    /\ PE_MOF \in DOMAIN op.ret
    /\ Cardinality(WinnersAt(PE_MOF)) = 7
    /\ pe_profiles[PE_MOF].top_winners = <<Z_CO, X_LTD, X_CO, Y_INC, LTD>>
    /\ pe_profiles[PE_MOF].budget_cycle_months = <<6, 3, 11>>

\* C25: a record whose award date is empty or shorter than 7 characters is
\* left out of the buyer's month histogram and counted in total_awards and
\* the winners all the same; peak months are at most 3, ranked by frequency;
\* and a date of 7 or more characters whose month cannot be parsed does not
\* stop the rebuild.
C25_DatesNeverStopTheRebuild ==
    op.name = "rebuild_pe_profiles" =>
        /\ op.status = "ok"
        /\ \A pe \in DOMAIN op.ret :
               LET row   == pe_profiles[pe]
                   dated == {i \in IndicesOf(pe) : HasMonth(award_records[i])}
                   hits(m) == Cardinality({i \in dated :
                                              MonthOf(award_records[i].award_date) = m})
                   peak  == row.budget_cycle_months
               IN  /\ row.total_awards = Cardinality(IndicesOf(pe))
                   /\ Len(peak) <= 3
                   /\ \A k \in 1..Len(peak) : hits(peak[k]) >= 1
                   /\ \A k \in 1..(Len(peak) - 1) : hits(peak[k]) >= hits(peak[k + 1])

(***************************************************************************)
(* Threat scores of the whole persisted table (under SpecCompetitor).      *)
(***************************************************************************)
\* C23: after a competitor rebuild that follows any ingestions and earlier
\* rebuilds, every row of competitor_profiles, not only the rows written
\* last, has the win count of its company in the current store and
\* threat_score = total_wins / (largest win count of any competitor, of any
\* sector, in the current store), to 3 places and within [0,1]: no row keeps
\* a score computed against the maximum of an earlier rebuild.
C23_EveryRowAgainstCurrentMaximum ==
    CompetitorRebuilt =>
        \A n \in DOMAIN competitor_profiles :
            LET most == SetMax({Len(WinsOf(m)) : m \in DOMAIN competitor_profiles})
                row  == competitor_profiles[n]
            IN  /\ row.total_wins = Len(WinsOf(n))
                /\ row.threat_score = RoundDiv(1000 * Len(WinsOf(n)), most)
                /\ row.threat_score >= 0 /\ row.threat_score <= 1000

\* after a rebuild a competitor of one sector holds half the wins of the
\* leader, who is of another sector
C23_ScoredAgainstOtherSector ==
    /\ CompetitorRebuilt
    /\ \E n, m \in DOMAIN competitor_profiles :
           /\ competitor_profiles[m].threat_score = 1000
           /\ competitor_profiles[n].threat_score = 500
           /\ DOMAIN competitor_profiles[n].primary_sectors
                  \cap DOMAIN competitor_profiles[m].primary_sectors = {}

(***************************************************************************)
(* The PE-favorability factor (under SpecTPS).                             *)
(***************************************************************************)
\* the buyer and the company of the call that just returned
BuyerOfCall == op.arg.tender.procuring_entity
CompanyOfCall == op.arg.company.name

\* the company is, by normalized name, among the buyer's stored top winners
AmongTopWinners ==
    \E i \in 1..Len(pe_profiles[BuyerOfCall].top_winners) :
        normalize_company_name(pe_profiles[BuyerOfCall].top_winners[i])
            = normalize_company_name(CompanyOfCall)

\* C26: the PE-favorability factor is 0.50 when the buyer has no profile;
\* otherwise its nominal value is 0.90 iff the company's normalized name is
\* among the normalized names of the buyer's stored top winners, 0.45 if not,
\* and the factor is the nominal value times (0.5 + 0.5 * buyer confidence),
\* which lies between half the nominal value and the nominal value.
C26_PeFavorability ==
    TpsScored =>
        LET factor == op.ret.scores.pe_favorability
        IN  IF BuyerOfCall \notin DOMAIN pe_profiles
            THEN factor = 500000
            ELSE LET nominal    == IF AmongTopWinners THEN 900000 ELSE 450000
                     confidence == pe_profiles[BuyerOfCall].confidence_score
                 IN  /\ 2000 * factor = nominal * (1000 + confidence)
                     /\ 2 * factor >= nominal
                     /\ factor <= nominal

\* a past winner under another spelling at a buyer of less than full
\* confidence: the factor lies strictly between 0.45 and 0.90
C26_PastWinnerAtYoungBuyer ==
    /\ TpsScored
    /\ BuyerOfCall \in DOMAIN pe_profiles
    /\ AmongTopWinners
    /\ \A i \in 1..Len(pe_profiles[BuyerOfCall].top_winners) :
           pe_profiles[BuyerOfCall].top_winners[i] # CompanyOfCall
    /\ pe_profiles[BuyerOfCall].confidence_score < 1000
    /\ op.ret.scores.pe_favorability > 450000
    /\ op.ret.scores.pe_favorability < 900000

(***************************************************************************)
(* The miner's sector-leader pass (under SpecLeaders).                     *)
(***************************************************************************)
\* the stored records of a sector whose winner is named and not 'Unknown',
\* and the wins of a stored winner name among them
NamedIn(sector) ==
    {i \in 1..Len(award_records) :
        /\ award_records[i].sector = sector
        /\ award_records[i].winning_company \notin {NULL, UNKNOWN}}
WinsIn(sector, w) ==
    Cardinality({i \in NamedIn(sector) : award_records[i].winning_company = w})
LeadersOf(sector) ==
    SelectSeq(pattern_insights,
              LAMBDA x : x.insight_type = "SECTOR_LEADER" /\ x.sector = sector)

\* C27: a mining pass leaves exactly one SECTOR_LEADER insight for each
\* sector with at least one record whose winner is not 'Unknown', naming a
\* winner whose win count in that sector is the largest among them, with that
\* count as data points and confidence min(1, wins/10); a sector whose
\* winners are all 'Unknown' gets none.
C27_OneLeaderPerSector ==
    op.name = "run_pattern_mining" =>
        /\ \A x \in Range(pattern_insights) :
               x.insight_type = "SECTOR_LEADER" => x.sector \in SECTORS
        /\ \A sector \in SECTORS :
               IF NamedIn(sector) = {}
               THEN LeadersOf(sector) = <<>>
               ELSE /\ Len(LeadersOf(sector)) = 1
                    /\ LET x == LeadersOf(sector)[1]
                           w == x.text[2]
                       IN  /\ WinsIn(sector, w) >= 1
                           /\ \A i \in NamedIn(sector) :
                                  WinsIn(sector, award_records[i].winning_company)
                                      <= WinsIn(sector, w)
                           /\ x.text[3] = WinsIn(sector, w)
                           /\ x.data_points = WinsIn(sector, w)
                           /\ x.confidence = Min2(1000, 100 * WinsIn(sector, w))

\* one sector has a leader with two wins, the other only 'Unknown' winners
C27_LeaderAndUnknownSector ==
    /\ op.name = "run_pattern_mining"
    /\ \E s1, s2 \in SECTORS :
           /\ Len(LeadersOf(s1)) = 1
           /\ LeadersOf(s1)[1].data_points = 2
           /\ LeadersOf(s1)[1].confidence = 200
           /\ NamedIn(s2) = {}
           /\ \E i \in 1..Len(award_records) :
                  award_records[i].sector = s2 /\ award_records[i].winning_company = UNKNOWN

(***************************************************************************)
(* Properties of run_full_pipeline and run_platform_scraper (under         *)
(* SpecPipeline, and SpecPipelineFair for termination).                   *)
(***************************************************************************)
ScraperRunning  == op.name = "run_platform_scraper" /\ op.status = "running"
ScraperReturned == op.name = "run_platform_scraper" /\ op.status = "returned"

\* every stored record is counted in the profile of its winner and of its
\* buyer, and the insights are those of the store
StoreReflected ==
    /\ \A i \in 1..Len(award_records) :
           LET a == award_records[i]
           IN  /\ a.winning_company \notin {NULL, UNKNOWN} =>
                      /\ CompetitorKey(a) \in DOMAIN competitor_profiles
                      /\ competitor_profiles[CompetitorKey(a)].total_wins
                             = Len(WinsOf(CompetitorKey(a)))
               /\ a.pe_name # NULL =>
                      /\ a.pe_name \in DOMAIN pe_profiles
                      /\ pe_profiles[a.pe_name].total_awards = Cardinality(IndicesOf(a.pe_name))
    /\ pattern_insights = MinedInsights(award_records)

\* C21: run_full_pipeline runs the scraper, the competitor builder, the PE
\* builder and the miner one after the other, so when a run has ended every
\* record its scrape saved is reflected in the competitor profiles, the PE
\* profiles and the insights.
C21_RunEndsWithStoreReflected ==
    op.name = "run_full_pipeline" => StoreReflected

\* C28: run_platform_scraper returns the number of award records its run
\* added to the store; a release whose contract id is already stored, or that
\* repeats within the run, does not raise the count.
C28_ReturnsNumberAdded ==
    ScraperReturned => op.ret = Len(award_records) - op.arg.before

\* C30: the page loop of run_platform_scraper terminates whatever the data
\* source returns, also when it keeps returning non-empty pages whose next
\* cursors alternate between two values.
C30_PageLoopTerminates ==
    ScraperRunning ~> ScraperReturned

(***************************************************************************)
(* A mining pass as other connections see it (under SpecMining).           *)
(***************************************************************************)
\* C29: a mining pass replaces the insight table atomically: the DELETE and
\* the INSERTs are committed together, so whatever a reader got during a pass
\* is the complete previous set or, once committed, the complete new one,
\* never an empty or partly filled table; and a pass that failed before its
\* commit has left the previous set in place.
C29_MiningAtomic ==
    op.name = "run_pattern_mining" =>
        /\ pattern_insights = IF MiningAt("committed") THEN op.arg.insights
                              ELSE op.arg.previous
        /\ op.arg.read =>
               \/ op.arg.seen = op.arg.previous
               \/ MiningAt("committed") /\ op.arg.seen = op.arg.insights
        /\ MiningAt("failed") => pattern_insights = op.arg.previous

\* a reader got the previous set while the pass had deleted it and inserted
\* part of a different new one
C29_ReadBetweenInserts ==
    /\ MiningAt("deleted")
    /\ op.arg.read
    /\ op.arg.previous # <<>>
    /\ op.arg.seen = op.arg.previous
    /\ Len(op.ret) >= 1
    /\ Len(op.ret) < Len(op.arg.insights)
    /\ op.arg.insights # op.arg.previous

====
